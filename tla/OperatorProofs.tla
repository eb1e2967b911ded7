--------------------------- MODULE OperatorProofs ---------------------------
(***************************************************************************)
(* Proofs about the parts of the operator on either side of its reconcile  *)
(* loop. What a score meets in the ThreatScoreWatcher on its way to a      *)
(* status: the index that names the Pod of its source, the kill switch,    *)
(* the limiter. The index agrees with itself for any Pods, addresses and   *)
(* events, an answer of the switch is recent for every TTL and latency of  *)
(* a Get, and what the gates promise survives their composition. And what  *)
(* a quarantine ends in: the promises of the mesh adapters, for every      *)
(* number of workloads, ports and calls, and wherever an API call fails.   *)
(***************************************************************************)
EXTENDS PodIPIndex, ScoreGates, MeshAdapters, WellFoundedInduction, TLAPS

(* The SMT solver may take its time on a leaf that names no prover. *)
USE SMTT(60)

-----------------------------------------------------------------------------
(* PodIPIndex. *)

LEMMA PodStart ==
  ASSUME PodInit
  PROVE  EntriesAreReachable
<1>1. NoObject \in PodObject
  BY DEF NoObject, PodObject
<1>2. PodTypeOK
  BY <1>1, PodAssumption DEF PodInit, PodTypeOK
<1>3. QED
  BY <1>2 DEF PodInit, EntriesAreReachable

\* Changes of Pods leave the index alone.
LEMMA SetPodKeeps ==
  ASSUME EntriesAreReachable, NEW p \in Pod, NEW obj \in PodObject,
         SetPod(p, obj)
  PROVE  EntriesAreReachable'
<1>1. podOps' \in Nat /\ pods' \in [Pod -> PodObject]
  BY DEF SetPod, EntriesAreReachable, PodTypeOK
<1>2. stream' \in Seq(PodEvent)
  BY DEF SetPod, EntriesAreReachable, PodTypeOK, PodEvent
<1>3. QED
  BY <1>1, <1>2 DEF SetPod, EntriesAreReachable, PodTypeOK, indexVars

LEMMA PodChangeKeeps ==
  ASSUME EntriesAreReachable, NEW p \in Pod,
         \/ CreatePod(p) \/ FinishPod(p) \/ TouchPod(p) \/ DeletePod(p)
         \/ \E ip \in IP : AssignIP(p, ip)
  PROVE  EntriesAreReachable'
<1>1. PICK obj \in PodObject : SetPod(p, obj)
  BY Zenon DEF CreatePod, FinishPod, TouchPod, DeletePod, AssignIP, NoObject,
         EntriesAreReachable, PodTypeOK, PodObject
<1>2. QED
  BY <1>1, SetPodKeeps

LEMMA PutKeeps ==
  ASSUME EntriesAreReachable, NEW p \in Pod, NEW ip \in IP, Put(ip, p)
  PROVE  /\ byIP' \in [IP -> Pod \cup {NoPod}]
         /\ byPod' \in [Pod -> IP \cup {NoIP}]
         /\ \A a \in IP : byIP'[a] # NoPod => byPod'[byIP'[a]] = a
<1>1. /\ byIP' \in [IP -> Pod \cup {NoPod}]
      /\ byPod' \in [Pod -> IP \cup {NoIP}]
  BY DEF Put, EntriesAreReachable, PodTypeOK
<1>2. ASSUME NEW a \in IP, byIP'[a] # NoPod
      PROVE  byPod'[byIP'[a]] = a
  <2>1. CASE a = ip
    BY <2>1, PodAssumption DEF Put, EntriesAreReachable, PodTypeOK
  <2>2. CASE a # ip
    BY <1>2, <2>2, PodAssumption, Zenon DEF Put, EntriesAreReachable, PodTypeOK
  <2>3. QED
    BY <2>1, <2>2
<1>3. QED
  BY <1>1, <1>2

LEMMA RemoveKeeps ==
  ASSUME EntriesAreReachable, NEW p \in Pod, Remove(p)
  PROVE  /\ byIP' \in [IP -> Pod \cup {NoPod}]
         /\ byPod' \in [Pod -> IP \cup {NoIP}]
         /\ \A a \in IP : byIP'[a] # NoPod => byPod'[byIP'[a]] = a
  BY PodAssumption DEF Remove, EntriesAreReachable, PodTypeOK

\* No entry of byIP ever becomes unreachable from the Pod's name, so a
\* deletion that is processed evicts what the Pod owned.
THEOREM ReachableEntries == PodSpec => []EntriesAreReachable
<1>1. PodInit => EntriesAreReachable
  BY PodStart
<1>2. EntriesAreReachable /\ [PodNext]_podVars => EntriesAreReachable'
  <2> SUFFICES ASSUME EntriesAreReachable, [PodNext]_podVars
               PROVE  EntriesAreReachable'
    OBVIOUS
  <2>1. CASE \E p \in Pod : \/ CreatePod(p) \/ FinishPod(p) \/ TouchPod(p)
                            \/ DeletePod(p)
                            \/ \E ip \in IP : AssignIP(p, ip)
    BY <2>1, PodChangeKeeps, Zenon
  <2>2. CASE PodInformer
    <3>1. Head(stream) \in PodEvent /\ Tail(stream) \in Seq(PodEvent)
      BY <2>2 DEF PodInformer, EntriesAreReachable, PodTypeOK
    <3>2. QED
      BY <2>2, <3>1, Zenon DEF PodInformer, EntriesAreReachable, PodTypeOK,
                        PodEvent, indexVars
  <2>3. CASE \E p \in Pod : PodGet(p)
    BY <2>3 DEF PodGet, EntriesAreReachable, PodTypeOK, PodEvent, indexVars
  <2>4. CASE PodIndexed
    <3>1. worker \in PodEvent
      BY <2>4 DEF PodIndexed, EntriesAreReachable, PodTypeOK
    <3>2. worker.pod \in Pod /\ worker.obj \in PodObject
      BY <3>1, Zenon DEF PodEvent
    <3>3. /\ byIP' \in [IP -> Pod \cup {NoPod}]
          /\ byPod' \in [Pod -> IP \cup {NoIP}]
          /\ \A a \in IP : byIP'[a] # NoPod => byPod'[byIP'[a]] = a
      BY <2>4, <3>2, PutKeeps, RemoveKeeps, Zenon
         DEF PodIndexed, EntriesAreReachable, PodTypeOK, PodObject, indexVars
    <3>4. QED
      BY <2>4, <3>3, Zenon DEF PodIndexed, EntriesAreReachable, PodTypeOK
  <2>5. CASE UNCHANGED podVars
    BY <2>5, Zenon DEF podVars, EntriesAreReachable, PodTypeOK
  <2>6. QED
    BY <2>1, <2>2, <2>3, <2>4, <2>5, Zenon DEF PodNext
<1>3. QED
  BY <1>1, <1>2, PTL DEF PodSpec

-----------------------------------------------------------------------------
(* KillSwitch. *)

\* Every step of Engaged, the API server and the clock keeps the bound on
\* what an answer under way, and the cached one, may have missed.
LEMMA SwitchStep == SwitchInv /\ [SwitchNext]_switchVars => SwitchInv'
<1> SUFFICES ASSUME SwitchInv, [SwitchNext]_switchVars
             PROVE  SwitchInv'
    OBVIOUS
<1> USE SwitchAssumption DEF SwitchInv, Armed, Value
<1>1. CASE Send
    BY <1>1 DEF Send
<1>2. CASE Serve
    <2>1. CASE answer' = configMap /\ failed' = FALSE
        BY <1>2, <2>1, Zenon DEF Serve
    <2>2. CASE answer' = "error" /\ failed' = TRUE
        BY <1>2, <2>2, Zenon DEF Serve
    <2> QED BY <1>2, <2>1, <2>2, Zenon DEF Serve
<1>3. CASE Return
    <2>1. CASE answer = "error"
        BY <1>3, <2>1 DEF Return
    <2>2. CASE answer # "error"
        BY <1>3, <2>2 DEF Return
    <2> QED BY <2>1, <2>2, Zenon
<1>4. CASE Flip
    <2>1. /\ changed' = clock /\ heard' = FALSE /\ configMap' \in Value
          /\ UNCHANGED <<engaged, everRead, lastChecked, pc, answer, began,
                         clock, failed>>
        BY <1>4, Zenon DEF Flip
    <2>2. changed' >= began' /\ changed' + MaxLatency >= lastChecked'
        BY <2>1
    <2> QED BY <2>1, <2>2, Zenon
<1>5. CASE SwitchTick
    BY <1>5 DEF SwitchTick
<1>6. CASE UNCHANGED switchVars
    BY <1>6 DEF switchVars
<1> QED
    BY <1>1, <1>2, <1>3, <1>4, <1>5, <1>6, Zenon DEF SwitchNext

\* Before the first call nothing is cached and no Get is under way.
LEMMA SwitchStart == SwitchInit => SwitchInv
<1> SUFFICES ASSUME SwitchInit PROVE SwitchInv
    OBVIOUS
<1>1. clock \in Nat /\ lastChecked = 0 /\ began = 0 /\ changed = 0
    BY SwitchAssumption DEF SwitchInit
<1>2. /\ ~everRead /\ ~heard
      /\ {engaged, everRead, failed, heard} \subseteq BOOLEAN
    BY Zenon DEF SwitchInit
<1> QED
    BY <1>1, <1>2 DEF SwitchInit, SwitchInv

\* An answer Engaged takes from its cache is at most a TTL and one Get old
\* while Gets succeed, and one that was current stays so while they fail,
\* whatever the TTL and however slow the API server.
THEOREM CachedAnswer == SwitchSpec => []CachedAnswerIsCurrent
<1>1. SwitchInv => CachedAnswerIsCurrent
    <2> SUFFICES ASSUME SwitchInv, Fresh, pc = "idle", ~Unnoticed
                 PROVE  engaged = Armed
        BY Zenon DEF CachedAnswerIsCurrent
    <2>1. CASE heard
        BY <2>1, Zenon DEF SwitchInv
    <2>2. CASE ~heard
        BY <2>2, SwitchAssumption DEF SwitchInv, Fresh, Unnoticed
    <2> QED BY <2>1, <2>2, Zenon
<1> QED
    BY <1>1, SwitchStart, SwitchStep, PTL DEF SwitchSpec

-----------------------------------------------------------------------------
(* ScoreGates. *)

\* A step of the gates is, for the kill switch, a step of its own or none.
LEMMA GatesStepSwitch == [GatesNext]_gatesVars => [SwitchNext]_switchVars
<1> SUFFICES ASSUME [GatesNext]_gatesVars PROVE [SwitchNext]_switchVars
    OBVIOUS
<1>1. CASE UNCHANGED gatesVars
    BY <1>1 DEF gatesVars
<1>2. CASE ServeConfigMap \/ FlipConfigMap \/ Time
    BY <1>2 DEF ServeConfigMap, FlipConfigMap, Time, SwitchNext
<1>3. ASSUME NEW p \in Policy,
             \/ Benign(p) \/ CrossCached(p) \/ CrossAsks(p) \/ CrossAnswered(p)
             \/ DeEscalate(p)
      PROVE  [SwitchNext]_switchVars
    BY <1>3, Zenon DEF Benign, CrossCached, CrossAsks, CrossAnswered, DeEscalate,
                SwitchNext
<1> QED
    BY <1>1, <1>2, <1>3 DEF GatesNext

Statuses == [phase : {"Monitoring", "Alerting", "Mitigating"}, last : Nat]

\* Sending a status update, or taking a token for one, or being refused one,
\* keeps a refresh recent.
LEMMA WriteStep ==
    ASSUME GatesInv, NEW p \in Policy, NEW next \in Statuses,
           NEW decides \in BOOLEAN, writeStatus(p, next, decides),
           clock' = clock, SwitchInv',
           crossed' = crossed \/ crossed' = [crossed EXCEPT ![p] = clock]
    PROVE  GatesInv'
<1> USE LimiterAssumption, SwitchAssumption
<1> DEFINE cap == Burst * Interval
<1>1. /\ clock \in Nat /\ cap \in Nat /\ (Burst # 0 => cap >= Interval)
      /\ bucket[p] \in [tokens : Nat, at : Nat] /\ bucket[p].at <= clock
      /\ attempted[p] \in Nat /\ handled[p] \in Nat
      /\ bucket[p].tokens + attempted[p] >= bucket[p].at
    <2>1. cap \in Nat /\ (Burst # 0 => cap >= Interval)
        OBVIOUS
    <2> QED BY <2>1, Zenon DEF GatesInv, SwitchInv
<1>2. handled' = [handled EXCEPT ![p] = clock]
    BY Zenon DEF writeStatus
<1>3. status' \in [Policy -> Statuses]
    <2>1. status' = status \/ status' = [status EXCEPT ![p] = next]
        BY Zenon DEF writeStatus, Attempt
    <2>2. status \in [Policy -> Statuses]
        BY Zenon DEF GatesInv, Statuses
    <2> QED BY <2>1, <2>2, Zenon
<1>4. /\ handled' \in [Policy -> Nat] /\ crossed' \in [Policy -> Nat]
      /\ \A q \in Policy : crossed'[q] <= handled'[q] /\ handled'[q] <= clock
    <2>1. /\ handled \in [Policy -> Nat] /\ crossed \in [Policy -> Nat]
          /\ \A q \in Policy : crossed[q] <= handled[q] /\ handled[q] <= clock
        BY DEF GatesInv
    <2> QED BY <1>1, <1>2, <2>1
<1> DEFINE Account ==
        /\ bucket' \in [Policy -> [tokens : Nat, at : Nat]]
        /\ attempted' \in [Policy -> Nat]
        /\ \A q \in Policy : /\ bucket'[q].at <= clock
                             /\ bucket'[q].tokens + attempted'[q] >= bucket'[q].at
                             /\ attempted'[q] <= clock
        /\ RefreshIsRecent'
<1>5. CASE UNCHANGED bucket /\ attempted' = [attempted EXCEPT ![p] = clock]
    <2>1. Account
        BY <1>1, <1>2, <1>5 DEF GatesInv, RefreshIsRecent
    <2> QED BY <1>3, <1>4, <2>1, Zenon DEF GatesInv, Statuses
<1>6. CASE /\ Allow(p, clock) /\ bucket' = Taken(p, clock)
           /\ attempted' = [attempted EXCEPT ![p] = clock]
    <2>1. Burst = 0 \/ Available(p, clock) - Interval \in Nat
        BY <1>1, <1>6 DEF Available, Allow
    <2>2. bucket' \in [Policy -> [tokens : Nat, at : Nat]]
        BY <1>1, <1>6, <2>1, Zenon DEF GatesInv, Taken
    <2>3. \A q \in Policy : /\ bucket'[q].at <= clock
                            /\ bucket'[q].tokens + attempted'[q] >= bucket'[q].at
        BY <1>1, <1>6, <2>1 DEF GatesInv, Taken
    <2>4. /\ attempted' \in [Policy -> Nat]
          /\ \A q \in Policy : attempted'[q] <= clock
        BY <1>1, <1>6 DEF GatesInv
    <2>5. RefreshIsRecent'
        BY <1>1, <1>2, <1>6 DEF GatesInv, RefreshIsRecent
    <2> QED BY <1>3, <1>4, <2>2, <2>3, <2>4, <2>5, Zenon DEF GatesInv, Statuses
<1>7. CASE ~Allow(p, clock) /\ UNCHANGED <<bucket, attempted>>
    <2>1. clock < attempted[p] + Interval
        BY <1>1, <1>7 DEF Allow, Available
    <2>2. Account
        BY <1>1, <1>2, <1>7, <2>1, Zenon DEF GatesInv, RefreshIsRecent
    <2> QED BY <1>3, <1>4, <2>2, Zenon DEF GatesInv, Statuses
<1> QED
    BY <1>5, <1>6, <1>7, Zenon DEF writeStatus, Attempt

\* Every step of the gates keeps a bucket's account with the last write.
LEMMA GatesStep == GatesInv /\ [GatesNext]_gatesVars => GatesInv'
<1> SUFFICES ASSUME GatesInv, [GatesNext]_gatesVars PROVE GatesInv'
    OBVIOUS
<1>1. SwitchInv'
    BY SwitchStep, GatesStepSwitch, Zenon DEF GatesInv
<1>2. clock \in Nat /\ clock' \in Nat
    BY <1>1, Zenon DEF GatesInv, SwitchInv
<1>3. CASE /\ UNCHANGED <<bucket, attempted, handled, crossed>>
           /\ clock' >= clock /\ status' \in [Policy -> Statuses]
    BY <1>1, <1>2, <1>3 DEF GatesInv, RefreshIsRecent, Statuses
<1>4. status \in [Policy -> Statuses]
    BY Zenon DEF GatesInv, Statuses
<1>5. ASSUME NEW p \in Policy, NEW suppressed, Decide(p, suppressed),
             clock' = clock
      PROVE  GatesInv'
    <2>1. /\ [status[p] EXCEPT !.phase = "Alerting"] \in Statuses
          /\ [phase |-> "Mitigating", last |-> clock] \in Statuses
        BY <1>2, <1>4 DEF Statuses
    <2>2. PICK next \in Statuses, decides \in BOOLEAN :
            writeStatus(p, next, decides)
        BY <1>5, <2>1, Zenon DEF Decide
    <2>3. crossed' = crossed \/ crossed' = [crossed EXCEPT ![p] = clock]
        BY <1>5, Zenon DEF Decide
    <2> QED BY <1>1, <1>5, <2>2, <2>3, WriteStep, Zenon
<1>6. ASSUME NEW p \in Policy, Benign(p)
      PROVE  GatesInv'
    <2>1. PICK next \in Statuses : writeStatus(p, next, FALSE)
        <3>1. /\ status[p] \in Statuses
              /\ [status[p] EXCEPT !.phase = "Monitoring"] \in Statuses
            BY <1>4 DEF Statuses
        <3> QED BY <1>6, <3>1, Zenon DEF Benign
    <2>2. clock' = clock /\ crossed' = crossed
        BY <1>6, Zenon DEF Benign, switchVars
    <2> QED BY <1>1, <2>1, <2>2, WriteStep, Zenon
<1>7. ASSUME NEW p \in Policy, CrossCached(p) \/ CrossAnswered(p)
      PROVE  GatesInv'
    BY <1>5, <1>7, Zenon DEF CrossCached, CrossAnswered, Return, switchVars
<1>8. ASSUME NEW p \in Policy, CrossAsks(p)
      PROVE  GatesInv'
    BY <1>2, <1>3, <1>4, <1>8 DEF CrossAsks, Send
<1>9. ASSUME NEW p \in Policy, DeEscalate(p)
      PROVE  GatesInv'
    <2>1. status' \in [Policy -> Statuses]
        BY <1>4, <1>9, Zenon DEF DeEscalate, Statuses
    <2> QED BY <1>2, <1>3, <1>9, <2>1 DEF DeEscalate, switchVars
<1>10. CASE ServeConfigMap \/ FlipConfigMap \/ Time
    BY <1>2, <1>3, <1>4, <1>10 DEF ServeConfigMap, FlipConfigMap, Time, Serve,
                                   Flip, SwitchTick, gateVars
<1>11. CASE UNCHANGED gatesVars
    BY <1>2, <1>3, <1>4, <1>11 DEF gatesVars, switchVars, gateVars
<1> QED
    BY <1>6, <1>7, <1>8, <1>9, <1>10, <1>11, Zenon DEF GatesNext

\* The invariant of the gates, from their initial states.
LEMMA GatesInvariance == GatesSpec => []GatesInv
<1>1. ASSUME GatesInit PROVE GatesInv
    <2>1. SwitchInv
        BY <1>1, SwitchStart, Zenon DEF GatesInit
    <2>2. Burst * Interval \in Nat
        BY LimiterAssumption
    <2> QED
        BY <1>1, <2>1, <2>2, LimiterAssumption
        DEF GatesInit, LimiterInit, GatesInv, RefreshIsRecent, SwitchInv
<1> QED
    BY <1>1, GatesStep, PTL DEF GatesSpec

\* The limiter of writeStatus never holds a policy's refreshes up for as long
\* as a token takes to come, for every rate, burst and mix of scores.
THEOREM RefreshRecent == GatesSpec => []RefreshIsRecent
<1>1. GatesInv => RefreshIsRecent
    BY DEF GatesInv
<1> QED
    BY <1>1, GatesInvariance, PTL

\* Once the kill switch's ConfigMap is set, applyPolicy mitigates for at most
\* a TTL and one Get longer while Gets succeed, and not at all once one has,
\* however many fail after it.
THEOREM ArmedSwitch == GatesSpec => ArmedSwitchStops
<1> DEFINE Stops == \A p \in Policy :
                        Mitigates(p) => ~Armed \/ Unnoticed
<1>1. GatesInv /\ [GatesNext]_gatesVars => [Stops]_gatesVars
    <2> SUFFICES ASSUME GatesInv, GatesNext, NEW p \in Policy, Mitigates(p),
                        Armed
                 PROVE  Unnoticed
        BY DEF gatesVars
    <2>1. PICK q \in Policy : CrossCached(q) \/ CrossAnswered(q)
        BY Zenon DEF GatesNext, Mitigates, Benign, CrossAsks, DeEscalate,
               ServeConfigMap, FlipConfigMap, Time, gateVars
    <2>2. CASE CrossCached(q)
        <3>1. ~engaged
            BY <2>2, Zenon DEF CrossCached, Decide, Mitigates
        <3>2. pc = "idle" /\ Fresh /\ SwitchInv /\ engaged # Armed
            BY <2>2, <3>1, Zenon DEF CrossCached, Armed, GatesInv
        <3>3. ~heard
            BY <3>2, Zenon DEF SwitchInv
        <3>4. failed \/ changed + MaxLatency >= lastChecked
            BY <3>2, Zenon DEF SwitchInv, Fresh
        <3>5. {lastChecked, clock, changed} \subseteq Nat
            BY <3>2, Zenon DEF SwitchInv
        <3>6. clock < lastChecked + TTL
            BY <3>2, Zenon DEF Fresh
        <3>7. failed \/ clock < changed + TTL + MaxLatency
            BY <3>4, <3>5, <3>6, SwitchAssumption
        <3> QED
            BY <3>3, <3>7, Zenon DEF Unnoticed
    <2>3. CASE CrossAnswered(q)
        <3>1. ~engaged'
            BY <2>3, Zenon DEF CrossAnswered, Decide, Mitigates
        <3>2. pc = "served" /\ SwitchInv
            BY <2>3, Zenon DEF CrossAnswered, Return, GatesInv
        <3>3. CASE failed
            <4>1. answer = "error"
                BY <3>2, <3>3, Zenon DEF SwitchInv
            <4>2. ~engaged
                BY <2>3, <3>1, <4>1, Zenon DEF CrossAnswered, Return
            <4> QED BY <3>2, <3>3, <4>2, Zenon DEF SwitchInv, Armed, Unnoticed
        <3>4. CASE ~failed
            <4>1. answer # configMap
                BY <2>3, <3>1, <3>2, <3>4, Zenon
                DEF CrossAnswered, Return, Armed, SwitchInv
            <4>2. ~heard /\ changed >= began /\ clock <= began + MaxLatency
                BY <3>2, <3>4, <4>1, Zenon DEF SwitchInv
            <4> QED
                BY <3>2, <4>2, SwitchAssumption DEF SwitchInv, Unnoticed
        <3> QED BY <3>3, <3>4, Zenon
    <2> QED BY <2>1, <2>2, <2>3, Zenon
<1> QED
    BY <1>1, GatesInvariance, PTL DEF GatesSpec, ArmedSwitchStops

\* A policy goes back to Monitoring only after a dwell without mitigating
\* scores, short of less than a token's time, when the write that dated its
\* mitigation is the last one sent: for every rate, burst and dwell.
THEOREM QuietDeEscalation == GatesSpec => QuietBeforeDeEscalation
<1> DEFINE Quiet == \A p \in Policy :
                EndsMitigation(p) /\ attempted[p] = status[p].last
                    => clock + Interval > crossed[p] + Dwell
<1>1. GatesInv /\ [GatesNext]_gatesVars => [Quiet]_gatesVars
    <2> SUFFICES ASSUME GatesInv, GatesNext, NEW p \in Policy,
                        EndsMitigation(p), attempted[p] = status[p].last
                 PROVE  clock + Interval > crossed[p] + Dwell
        BY DEF gatesVars
    <2>1. DeEscalate(p)
        <3>1. status'[p] # status[p]
            BY Zenon DEF EndsMitigation
        <3>2. ASSUME NEW q \in Policy, NEW next, NEW decides,
                     writeStatus(q, next, decides)
              PROVE  q = p /\ next.phase = "Monitoring"
            BY <3>1, <3>2 DEF writeStatus, Attempt, GatesInv, EndsMitigation
        <3>3. ASSUME NEW q \in Policy, Benign(q) PROVE FALSE
            BY <3>2, <3>3, Zenon DEF Benign, EndsMitigation
        <3>4. ASSUME NEW q \in Policy, NEW suppressed, Decide(q, suppressed)
              PROVE  FALSE
            <4>1. /\ [status[q] EXCEPT !.phase = "Alerting"].phase = "Alerting"
                  /\ \A t : [phase |-> "Mitigating", last |-> t].phase
                                = "Mitigating"
                BY Zenon DEF GatesInv
            <4> QED BY <3>2, <3>4, <4>1, Zenon DEF Decide
        <3>5. PICK q \in Policy : DeEscalate(q)
            BY <3>1, <3>3, <3>4, Zenon
               DEF GatesNext, CrossCached, CrossAsks, CrossAnswered,
                   ServeConfigMap, FlipConfigMap, Time, gateVars
        <3> QED BY <3>1, <3>5, Zenon DEF DeEscalate, GatesInv
    <2>2. /\ clock \in Nat /\ attempted[p] \in Nat /\ crossed[p] \in Nat
          /\ handled[p] \in Nat /\ crossed[p] <= handled[p]
          /\ handled[p] < attempted[p] + Interval
          /\ Interval \in Nat /\ Dwell \in Nat
        BY LimiterAssumption, GatesAssumption, Zenon
           DEF GatesInv, SwitchInv, RefreshIsRecent
    <2> QED BY <2>1, <2>2 DEF DeEscalate
<1> QED
    BY <1>1, GatesInvariance, PTL DEF GatesSpec, QuietBeforeDeEscalation

-----------------------------------------------------------------------------
(* The mesh adapters. *)

Names == [workload : Workload, port : Port \cup {All}]

Calls(pcs) ==
    [pc : pcs, w : SUBSET Workload, todo : SUBSET Names, found : Int,
     names : SUBSET Names, alone : BOOLEAN, error : BOOLEAN]

WatcherPCs == {"idle", "discover", "get", "create", "update", "ok", "failed"}
WorkerPCs == {"idle", "list", "delete", "ok", "failed"}

quarantine == call["watcher"]
release == call["worker"]

MeshTypeOK ==
    /\ DOMAIN call = Caller /\ call = [c \in Caller |-> call[c]]
    /\ quarantine \in Calls(WatcherPCs) /\ release \in Calls(WorkerPCs)
    /\ DOMAIN objects \subseteq Names /\ versions \in Int
    /\ \A n \in DOMAIN objects : objects[n] \in Int
    /\ declared \in [Workload -> SUBSET Port]

\* What holds of a call alone: its names are of its workload, and it has some
\* left exactly while it is at them.
CallOK(k) ==
    /\ k.w = {} <=> k.pc = "idle"
    /\ \A v, w \in k.w : v = w
    /\ \A n \in k.names : n.workload \in k.w
    /\ k.todo \subseteq k.names
    /\ k.pc \in {"get", "create", "update", "delete"} => k.todo # {}
    /\ k.pc = "ok" => k.todo = {}

\* Calls that run for one workload at a time have both met.
Met == quarantine.w \cap release.w # {} => ~quarantine.alone /\ ~release.alone

\* What the watcher's call has seen to stays, and what it read is current,
\* unless a Release asked for its deletion.
WatcherOK ==
    /\ (quarantine.names \ quarantine.todo) \ gone \subseteq DOMAIN objects
    /\ quarantine.pc = "create" => Target("watcher") \notin DOMAIN objects
    /\ quarantine.pc = "update" /\ Target("watcher") \notin gone =>
            /\ Target("watcher") \in DOMAIN objects
            /\ objects[Target("watcher")] = quarantine.found
    /\ quarantine.pc = "failed" =>
            quarantine.error \/ Target("watcher") \in gone

\* What a Release still has to delete is all there is of its workload, unless
\* a Quarantine has met it, and only an API call can fail it.
WorkerOK ==
    /\ release.alone /\ release.pc \in {"delete", "ok"} /\ kind # "noop" =>
        \A n \in DOMAIN objects : n.workload \in release.w => n \in release.todo
    /\ release.pc = "failed" => release.error

\* Istio and Cilium have one object for a workload.
OneObject ==
    kind \notin {"linkerd", "noop"} =>
        \A n \in DOMAIN objects \cup quarantine.names : n.port = All

\* What was promised, and that no Quarantine is at what was released.
Promised ==
    /\ sealed \ gone \subseteq DOMAIN objects
    /\ \A n \in DOMAIN objects : n.workload \notin clean
    /\ clean \cap quarantine.w = {}

MeshInv ==
    /\ MeshTypeOK /\ CallOK(quarantine) /\ CallOK(release) /\ Met
    /\ WatcherOK /\ WorkerOK /\ OneObject /\ Promised

-----------------------------------------------------------------------------
\* A set of naturals that is not empty has a least member.
LEMMA LeastNat ==
    ASSUME NEW S, S \subseteq Nat, S # {}
    PROVE  \E p \in S : \A q \in S : p <= q
<1> DEFINE R == OpToRel(<, Nat)
<1>1. PICK p \in S : \A q \in S : <<q, p>> \notin R
    BY NatLessThanWellFounded, WFMin, Zenon
<1>2. ASSUME NEW q \in S PROVE p <= q
    <2>1. q \in Nat /\ p \in Nat
        BY Zenon
    <2>2. q < p => <<q, p>> \in R
        BY <2>1, Zenon DEF OpToRel
    <2>3. ~(q < p)
        BY <1>1, <2>2, Zenon
    <2> QED BY <2>1, <2>3
<1> QED
    BY <1>2

\* There is a least port to see to next while there are names left.
LEMMA TargetIsLeft ==
    ASSUME NEW c, call[c].todo \subseteq Names, call[c].todo # {}
    PROVE  Target(c) \in call[c].todo
<1> DEFINE todo == call[c].todo
           ports == {n.port : n \in todo}
<1>1. \A n \in Names : n.port \in Nat
    <2>1. Port \cup {0} \subseteq Nat
        BY MeshAssumption
    <2>2. \A n \in Names : n.port \in Port \cup {0}
        BY Zenon DEF Names, All
    <2> QED BY <2>1, <2>2, Zenon
<1>2. ports \subseteq Nat /\ ports # {}
    <2> HIDE DEF todo
    <2>1. todo \subseteq Names /\ todo # {}
        BY DEF todo
    <2> QED BY <1>1, <2>1, Zenon
<1>3. PICK p \in ports : \A q \in ports : p <= q
    <2> HIDE DEF ports
    <2> QED BY <1>2, LeastNat, Zenon
<1> QED
    BY <1>3, Zenon DEF Target

-----------------------------------------------------------------------------
(* What the steps of a call do to its record, and to the other's. *)

\* A watcher's call that goes on changes its program counter and its names.
LEMMA WatcherContinues ==
    ASSUME MeshTypeOK, NEW todo \in SUBSET Names, NEW names \in SUBSET Names,
           Continue("watcher", todo, names)
    PROVE  /\ call' = [c \in Caller |-> call'[c]] /\ release' = release
           /\ quarantine' = [quarantine EXCEPT !.todo = todo, !.names = names,
                            !.pc = IF todo = {} THEN "ok" ELSE "get"]
BY Zenon DEF MeshTypeOK, Continue, quarantine, release, Caller, Calls

\* A Release that goes on has fewer names left.
LEMMA WorkerContinues ==
    ASSUME MeshTypeOK, NEW todo \in SUBSET Names, NEW names \in SUBSET Names,
           Continue("worker", todo, names)
    PROVE  /\ call' = [c \in Caller |-> call'[c]] /\ quarantine' = quarantine
           /\ release' = [release EXCEPT !.todo = todo, !.names = names,
                           !.pc = IF todo = {} THEN "ok" ELSE "delete"]
BY Zenon DEF MeshTypeOK, Continue, quarantine, release, Caller, Calls

\* A watcher's call that goes on keeps what it promises so far.
LEMMA WatcherStep ==
    ASSUME MeshInv, NEW todo \in SUBSET Names, NEW names \in SUBSET Names,
           Continue("watcher", todo, names), todo \subseteq names,
           \A n \in names : n.workload \in quarantine.w,
           DOMAIN objects \subseteq DOMAIN objects',
           \A n \in DOMAIN objects' \ DOMAIN objects : n \in names,
           \A n \in DOMAIN objects' : objects'[n] \in Int,
           (names \ todo) \ gone' \subseteq DOMAIN objects',
           gone \ gone' \subseteq DOMAIN objects',
           kind \notin {"linkerd", "noop"} => \A n \in names : n.port = All,
           versions' \in Int, UNCHANGED <<kind, declared, sealed, clean>>,
           quarantine.pc # "idle"
    PROVE  MeshInv'
<1> DEFINE k == quarantine'
<1>1. /\ call' = [c \in Caller |-> call'[c]] /\ release' = release
      /\ k = [quarantine EXCEPT !.todo = todo, !.names = names,
                            !.pc = IF todo = {} THEN "ok" ELSE "get"]
    BY WatcherContinues, Zenon DEF MeshInv
<1>2. /\ k \in Calls(WatcherPCs)
      /\ k.pc = IF todo = {} THEN "ok" ELSE "get"
      /\ k.todo = todo /\ k.names = names
      /\ k.w = quarantine.w /\ k.alone = quarantine.alone
    BY <1>1, Zenon DEF MeshInv, MeshTypeOK, Calls, WatcherPCs
<1> HIDE DEF k
<1>3. MeshTypeOK'
    BY <1>1, <1>2, Zenon DEF MeshInv, MeshTypeOK, k
<1>4. CallOK(quarantine)'
    BY <1>1, <1>2 DEF MeshInv, MeshTypeOK, CallOK, k
<1>5. CallOK(release)'
    BY <1>1, Zenon DEF MeshInv, CallOK
<1>6. Met' /\ WatcherOK' /\ OneObject'
    BY <1>1, <1>2 DEF MeshInv, Met, WatcherOK, OneObject, k
<1>7. WorkerOK'
    BY <1>1, <1>2, Zenon DEF MeshInv, Met, WorkerOK, k
<1>8. Promised'
    BY <1>1, <1>2, Zenon DEF MeshInv, Promised, k
<1> QED BY <1>3, <1>4, <1>5, <1>6, <1>7, <1>8, Zenon DEF MeshInv

\* A watcher's call may fail once an API call has, or a Release has asked for
\* the deletion of its object.
LEMMA WatcherFails ==
    ASSUME MeshInv, quarantine.pc # "idle", NEW e \in BOOLEAN,
           e \/ Target("watcher") \in gone,
           call' = [call EXCEPT !["watcher"] =
                                [quarantine EXCEPT !.pc = "failed", !.error = e]],
           DOMAIN objects \subseteq DOMAIN objects',
           \A n \in DOMAIN objects' \ DOMAIN objects : n \in quarantine.names,
           \A n \in DOMAIN objects' : objects'[n] \in Int,
           versions' \in Int, UNCHANGED <<kind, declared, sealed, gone, clean>>
    PROVE  MeshInv'
<1> DEFINE k == quarantine'
<1>1. /\ call' = [c \in Caller |-> call'[c]] /\ release' = release
      /\ k = [quarantine EXCEPT !.pc = "failed", !.error = e]
    BY Zenon DEF MeshInv, MeshTypeOK, Caller, quarantine, release
<1>2. /\ k \in Calls(WatcherPCs) /\ k.pc = "failed" /\ k.error = e
      /\ k.todo = quarantine.todo /\ k.names = quarantine.names
      /\ k.w = quarantine.w /\ k.alone = quarantine.alone
    BY <1>1, Zenon DEF MeshInv, MeshTypeOK, Calls, WatcherPCs
<1> HIDE DEF k
<1>3. MeshTypeOK'
    BY <1>1, <1>2, Zenon DEF MeshInv, MeshTypeOK, Calls, k
<1>4. CallOK(quarantine)'
    BY <1>1, <1>2 DEF MeshInv, MeshTypeOK, CallOK, k
<1>5. CallOK(release)'
    BY <1>1, Zenon DEF MeshInv, CallOK
<1>6. Met' /\ WatcherOK' /\ OneObject'
    <2>1. Target("watcher")' = Target("watcher")
        BY <1>2, Zenon DEF Target, quarantine, k
    <2> QED BY <1>1, <1>2, <2>1, Zenon DEF MeshInv, Met, WatcherOK, OneObject, k
<1>7. WorkerOK'
    BY <1>1, <1>2, Zenon DEF MeshInv, Met, WorkerOK, CallOK, k
<1>8. Promised'
    BY <1>1, <1>2, Zenon DEF MeshInv, Promised, CallOK, k
<1> QED BY <1>3, <1>4, <1>5, <1>6, <1>7, <1>8, Zenon DEF MeshInv

\* What a Get finds is so until the watcher acts on it, or a Release meets it.
LEMMA WatcherReads ==
    ASSUME MeshInv, quarantine.pc = "get", NEW next \in {"create", "update"},
           NEW v \in Int,
           call' = [call EXCEPT !["watcher"] =
                                [quarantine EXCEPT !.pc = next, !.found = v]],
           next = "create" => Target("watcher") \notin DOMAIN objects,
           next = "update" => /\ Target("watcher") \in DOMAIN objects
                              /\ objects[Target("watcher")] = v,
           UNCHANGED <<kind, declared, objects, versions, sealed, gone, clean>>
    PROVE  MeshInv'
<1> DEFINE k == quarantine'
<1>1. /\ call' = [c \in Caller |-> call'[c]] /\ release' = release
      /\ k = [quarantine EXCEPT !.pc = next, !.found = v]
    BY Zenon DEF MeshInv, MeshTypeOK, Caller, quarantine, release
<1>2. /\ k \in Calls(WatcherPCs) /\ k.pc = next /\ k.found = v
      /\ k.todo = quarantine.todo /\ k.names = quarantine.names
      /\ k.w = quarantine.w /\ k.alone = quarantine.alone
    BY <1>1, Zenon DEF MeshInv, MeshTypeOK, Calls, WatcherPCs
<1>3. Target("watcher")' = Target("watcher")
    BY <1>2, Zenon DEF Target, quarantine
<1> HIDE DEF k
<1>4. MeshTypeOK' /\ CallOK(release)'
    BY <1>1, <1>2, Zenon DEF MeshInv, MeshTypeOK, Calls, CallOK, k
<1>5. CallOK(quarantine)'
    BY <1>1, <1>2 DEF MeshInv, MeshTypeOK, CallOK, k
<1>6. Met' /\ WatcherOK' /\ OneObject' /\ WorkerOK' /\ Promised'
    BY <1>1, <1>2, <1>3, Zenon
    DEF MeshInv, Met, WatcherOK, OneObject, WorkerOK, Promised, k
<1> QED BY <1>4, <1>5, <1>6, Zenon DEF MeshInv

\* A Release that goes on, or fails because an API call has, takes away names
\* it has asked to delete.
LEMMA WorkerStep ==
    ASSUME MeshInv, release.pc # "idle", NEW k \in Calls(WorkerPCs),
           call' = [call EXCEPT !["worker"] = k], CallOK(k),
           k.w = release.w /\ k.alone = release.alone,
           DOMAIN objects' \subseteq DOMAIN objects,
           \A n \in DOMAIN objects' : objects'[n] = objects[n],
           gone \subseteq gone', DOMAIN objects \ DOMAIN objects' \subseteq gone',
           k.alone /\ k.pc \in {"delete", "ok"} /\ kind # "noop" =>
               \A n \in DOMAIN objects' : n.workload \in k.w => n \in k.todo,
           k.pc = "failed" => k.error,
           UNCHANGED <<kind, declared, versions, sealed, clean>>
    PROVE  MeshInv'
<1>1. /\ call' = [c \in Caller |-> call'[c]]
      /\ quarantine' = quarantine /\ release' = k
    BY Zenon DEF MeshInv, MeshTypeOK, Caller, quarantine, release
<1>2. Target("watcher")' = Target("watcher")
    BY <1>1, Zenon DEF Target, quarantine
<1>3. MeshTypeOK' /\ CallOK(quarantine)' /\ CallOK(release)'
    BY <1>1, Zenon DEF MeshInv, MeshTypeOK, CallOK
<1>4. Met' /\ OneObject' /\ WorkerOK' /\ Promised'
    BY <1>1, Zenon DEF MeshInv, Met, OneObject, WorkerOK, Promised
<1>5. WatcherOK'
    BY <1>1, <1>2, Zenon DEF MeshInv, WatcherOK
<1> QED BY <1>3, <1>4, <1>5, Zenon DEF MeshInv

-----------------------------------------------------------------------------
(* The actions. *)

\* A Quarantine takes back the promise of a Release, and meets one under way.
LEMMA QuarantineStep ==
    ASSUME MeshInv, NEW w \in Workload, Quarantine(w)
    PROVE  MeshInv'
<1> DEFINE met == w \in release.w
<1>1. /\ call' = [c \in Caller |-> call'[c]] /\ quarantine.pc = "idle"
      /\ quarantine' = [NoCall EXCEPT !.pc = "discover", !.w = {w}, !.alone = ~met]
      /\ release' = [release EXCEPT !.alone = release.alone /\ ~met]
    <2>1. release.pc # "idle" /\ w \in release.w <=> met
        BY DEF MeshInv, CallOK
    <2> QED
        BY <2>1, Zenon DEF Quarantine, Begin, Caller, quarantine, release
<1>2. /\ quarantine' \in Calls(WatcherPCs) /\ quarantine'.pc = "discover"
      /\ quarantine'.w = {w} /\ quarantine'.todo = {} /\ quarantine'.names = {}
      /\ quarantine'.alone = ~met
    <2>1. ASSUME NEW b \in BOOLEAN, NEW k,
                 k = [NoCall EXCEPT !.pc = "discover", !.w = {w}, !.alone = b]
          PROVE  /\ k \in Calls(WatcherPCs) /\ k.pc = "discover"
                 /\ k.w = {w} /\ k.todo = {} /\ k.names = {} /\ k.alone = b
        <3>1. k = [pc |-> "discover", w |-> {w}, todo |-> {}, found |-> 0,
                   names |-> {}, alone |-> b, error |-> FALSE]
            BY <2>1, Zenon DEF NoCall
        <3> QED BY <3>1 DEF Calls, WatcherPCs
    <2>2. (~met) \in BOOLEAN
        OBVIOUS
    <2> HIDE DEF met
    <2> QED BY <1>1, <2>1, <2>2, Zenon
<1>3. /\ release' \in Calls(WorkerPCs) /\ release'.pc = release.pc
      /\ release'.w = release.w /\ release'.todo = release.todo
      /\ release'.names = release.names /\ release'.error = release.error
      /\ release'.alone = (release.alone /\ ~met)
    BY <1>1, Zenon DEF MeshInv, MeshTypeOK, Calls
<1>4. /\ UNCHANGED <<kind, declared, objects, versions, sealed, gone>>
      /\ clean' = clean \ {w}
    BY Zenon DEF Quarantine, Begin
<1>5. MeshTypeOK'
    BY <1>1, <1>2, <1>3, <1>4, Zenon DEF MeshInv, MeshTypeOK
<1>6. CallOK(quarantine)' /\ CallOK(release)'
    BY <1>2, <1>3, ZenonT(60) DEF MeshInv, CallOK
<1>7. Met' /\ WatcherOK' /\ OneObject'
    BY <1>2, <1>3, <1>4, Zenon DEF MeshInv, Met, WatcherOK, OneObject
<1>8. WorkerOK' /\ Promised'
    BY <1>2, <1>3, <1>4, Zenon DEF MeshInv, WorkerOK, Promised
<1> QED BY <1>5, <1>6, <1>7, <1>8, Zenon DEF MeshInv

\* A Release meets a Quarantine under way; so far it takes nothing back.
LEMMA ReleaseStep ==
    ASSUME MeshInv, NEW w \in Workload, Release(w)
    PROVE  MeshInv'
<1> DEFINE met == w \in quarantine.w
<1>1. /\ call' = [c \in Caller |-> call'[c]] /\ release.pc = "idle"
      /\ release' = [NoCall EXCEPT !.pc = "list", !.w = {w}, !.alone = ~met]
      /\ quarantine' = [quarantine EXCEPT !.alone = quarantine.alone /\ ~met]
    <2>1. quarantine.pc # "idle" /\ w \in quarantine.w <=> met
        BY DEF MeshInv, CallOK
    <2> QED
        BY <2>1, Zenon DEF Release, Begin, Caller, quarantine, release
<1>2. /\ release' \in Calls(WorkerPCs) /\ release'.pc = "list"
      /\ release'.w = {w} /\ release'.todo = {} /\ release'.names = {}
      /\ release'.alone = ~met
    <2>1. ASSUME NEW b \in BOOLEAN, NEW k,
                 k = [NoCall EXCEPT !.pc = "list", !.w = {w}, !.alone = b]
          PROVE  /\ k \in Calls(WorkerPCs) /\ k.pc = "list"
                 /\ k.w = {w} /\ k.todo = {} /\ k.names = {} /\ k.alone = b
        <3>1. k = [pc |-> "list", w |-> {w}, todo |-> {}, found |-> 0,
                   names |-> {}, alone |-> b, error |-> FALSE]
            BY <2>1, Zenon DEF NoCall
        <3> QED BY <3>1 DEF Calls, WorkerPCs
    <2>2. (~met) \in BOOLEAN
        OBVIOUS
    <2> HIDE DEF met
    <2> QED BY <1>1, <2>1, <2>2, Zenon
<1>3. /\ quarantine' \in Calls(WatcherPCs) /\ quarantine'.pc = quarantine.pc
      /\ quarantine'.w = quarantine.w /\ quarantine'.todo = quarantine.todo
      /\ quarantine'.names = quarantine.names /\ quarantine'.error = quarantine.error
      /\ quarantine'.found = quarantine.found
      /\ quarantine'.alone = (quarantine.alone /\ ~met)
    BY <1>1, Zenon DEF MeshInv, MeshTypeOK, Calls
<1>4. UNCHANGED <<kind, declared, objects, versions, sealed, gone, clean>>
    BY Zenon DEF Release, Begin
<1>5. MeshTypeOK'
    BY <1>1, <1>2, <1>3, <1>4, Zenon DEF MeshInv, MeshTypeOK
<1>6. CallOK(quarantine)' /\ CallOK(release)'
    <2>1. CallOK(quarantine)'
        <3>1. CallOK(quarantine)
            BY Zenon DEF MeshInv
        <3> QED BY <1>3, <3>1, Zenon DEF CallOK
    <2>2. CallOK(release)'
        BY <1>2, Zenon DEF CallOK
    <2> QED BY <2>1, <2>2, Zenon
<1>7. Target("watcher")' = Target("watcher")
    BY <1>3 DEF Target, quarantine
<1>8. Met' /\ WatcherOK' /\ OneObject'
    BY <1>2, <1>3, <1>4, <1>7, ZenonT(60) DEF MeshInv, Met, WatcherOK, OneObject
<1>9. WorkerOK' /\ Promised'
    BY <1>2, <1>3, <1>4 DEF MeshInv, WorkerOK, Promised
<1> QED BY <1>5, <1>6, <1>8, <1>9 DEF MeshInv

\* A call returns: what it promised holds, of a Release if it met no other.
LEMMA ReturnStep ==
    ASSUME MeshInv, NEW c \in Caller, EndCall(c)
    PROVE  MeshInv'
<1>1. UNCHANGED <<kind, declared, objects, versions, gone>>
    BY ZenonT(60) DEF EndCall
<1>2. /\ NoCall \in Calls(WatcherPCs) /\ NoCall \in Calls(WorkerPCs)
      /\ CallOK(NoCall) /\ NoCall.w = {} /\ NoCall.names = {}
      /\ NoCall.pc = "idle"
    BY DEF NoCall, Calls, WatcherPCs, WorkerPCs, CallOK
<1>3. CASE c = "watcher"
    <2>1. /\ call' = [d \in Caller |-> call'[d]]
          /\ quarantine' = NoCall /\ release' = release
        BY <1>3, Zenon DEF EndCall, MeshInv, MeshTypeOK, Caller, quarantine, release
    <2>2. MeshTypeOK' /\ CallOK(quarantine)' /\ CallOK(release)'
        BY <1>1, <1>2, <2>1, Zenon DEF MeshInv, MeshTypeOK, CallOK
    <2>3. Met' /\ WatcherOK' /\ OneObject' /\ WorkerOK'
        BY <1>1, <1>2, <2>1, Zenon DEF MeshInv, Met, WatcherOK, OneObject, WorkerOK
    <2>4. /\ clean' = clean
          /\ \/ sealed' = sealed
             \/ /\ quarantine.pc = "ok"
                /\ sealed' = sealed \cup quarantine.names
        BY <1>3, Zenon DEF EndCall, quarantine
    <2>5. Promised'
        BY <1>1, <1>2, <2>1, <2>4, Zenon
        DEF MeshInv, Promised, Met, WatcherOK, CallOK
    <2> QED BY <2>2, <2>3, <2>5, Zenon DEF MeshInv
<1>4. CASE c = "worker"
    <2>1. /\ call' = [d \in Caller |-> call'[d]]
          /\ release' = NoCall /\ quarantine' = quarantine
        BY <1>4, Zenon DEF EndCall, MeshInv, MeshTypeOK, Caller, quarantine, release
    <2>2. Target("watcher")' = Target("watcher")
        BY <2>1, Zenon DEF Target, quarantine
    <2>3. MeshTypeOK' /\ CallOK(quarantine)' /\ CallOK(release)'
        BY <1>1, <1>2, <2>1, Zenon DEF MeshInv, MeshTypeOK, CallOK
    <2>4. Met' /\ WatcherOK' /\ OneObject' /\ WorkerOK'
        BY <1>1, <1>2, <2>1, <2>2, Zenon
        DEF MeshInv, Met, WatcherOK, OneObject, WorkerOK
    <2>5. /\ sealed' = sealed
          /\ \/ clean' = clean
             \/ /\ release.pc = "ok" /\ release.alone /\ kind # "noop"
                /\ clean' = clean \cup release.w
        BY <1>4, Zenon DEF EndCall, release
    <2>6. Promised'
        BY <1>1, <1>2, <2>1, <2>5, Zenon
        DEF MeshInv, Promised, Met, WorkerOK, CallOK
    <2> QED BY <2>3, <2>4, <2>6 DEF MeshInv
<1> QED BY <1>3, <1>4 DEF Caller

\* A failed API call in a watcher's call, with or without its effect.
LEMMA WatcherAPIFails ==
    ASSUME MeshInv, quarantine.pc # "idle", NEW done, APIFails("watcher", done),
           DOMAIN objects \subseteq DOMAIN done,
           \A n \in DOMAIN done \ DOMAIN objects : n \in quarantine.names,
           \A n \in DOMAIN done : done[n] \in Int, versions' \in Int,
           UNCHANGED <<kind, declared, sealed, gone, clean>>
    PROVE  MeshInv'
<1>1. call' = [call EXCEPT !["watcher"] =
                           [quarantine EXCEPT !.pc = "failed", !.error = TRUE]]
    BY Zenon DEF APIFails, MeshInv, MeshTypeOK, Caller, quarantine
<1>2. objects' = objects \/ objects' = done
    BY Zenon DEF APIFails
<1>3. \A n \in DOMAIN objects : objects[n] \in Int
    BY Zenon DEF MeshInv, MeshTypeOK
<1> QED BY <1>1, <1>2, <1>3, WatcherFails, Zenon

\* Discovering the ports gives the names, of which none is seen to yet.
LEMMA DiscoverStep ==
    ASSUME MeshInv, NEW c \in Caller, Discover(c)
    PROVE  MeshInv'
<1>1. /\ c = "watcher" /\ quarantine.pc = "discover"
      /\ UNCHANGED <<kind, declared, versions, sealed, gone, clean>>
    BY DEF Discover, Kept, MeshInv, MeshTypeOK, Calls, WorkerPCs, Caller,
           quarantine, release
<1>2. PICK w \in quarantine.w :
        LET names == CASE kind = "noop" -> {}
                       [] kind = "linkerd" -> {Name(w, p) : p \in declared[w]}
                       [] OTHER -> {Name(w, All)}
        IN  \/ Continue(c, names, names) /\ UNCHANGED <<objects, left>>
            \/ /\ call' = [call EXCEPT ![c].pc = "failed", ![c].error = TRUE]
               /\ UNCHANGED <<objects, left>>
            \/ kind = "linkerd" /\ APIFails(c, objects)
    BY <1>1, Zenon DEF Discover, quarantine
<1> DEFINE names == CASE kind = "noop" -> {}
                      [] kind = "linkerd" -> {Name(w, p) : p \in declared[w]}
                      [] OTHER -> {Name(w, All)}
<1>3. /\ names \in SUBSET Names /\ \A n \in names : n.workload = w
      /\ kind \notin {"linkerd", "noop"} => \A n \in names : n.port = All
    <2>1. w \in Workload /\ declared[w] \subseteq Port
        BY Zenon DEF MeshInv, MeshTypeOK, Calls
    <2>2. \A p \in Port \cup {All} : /\ Name(w, p) \in Names
                                     /\ Name(w, p).workload = w
                                     /\ Name(w, p).port = p
        BY <2>1 DEF Name, Names
    <2> QED BY <2>1, <2>2
<1> HIDE DEF names
<1>4. versions \in Int /\ \A n \in DOMAIN objects : objects[n] \in Int
    BY Zenon DEF MeshInv, MeshTypeOK
<1>5. CASE Continue(c, names, names) /\ UNCHANGED <<objects, left>>
    BY <1>1, <1>3, <1>4, <1>5, WatcherStep, Zenon
<1>6. CASE /\ call' = [call EXCEPT ![c].pc = "failed", ![c].error = TRUE]
           /\ UNCHANGED <<objects, left>>
    <2>1. call' = [call EXCEPT !["watcher"] =
                               [quarantine EXCEPT !.pc = "failed", !.error = TRUE]]
        BY <1>1, <1>6, Zenon DEF MeshInv, MeshTypeOK, Caller, quarantine
    <2> QED BY <1>1, <1>4, <1>6, <2>1, WatcherFails, Zenon
<1>7. CASE APIFails(c, objects)
    BY <1>1, <1>4, <1>7, WatcherAPIFails, Zenon
<1> QED BY <1>2, <1>5, <1>6, <1>7, Zenon DEF names

\* The name the watcher is at is one of its own, with a port the adapter uses.
LEMMA AtTarget ==
    ASSUME MeshInv, quarantine.pc \in {"get", "create", "update"}
    PROVE  Target("watcher") \in quarantine.todo
BY TargetIsLeft, Zenon DEF MeshInv, MeshTypeOK, CallOK, Calls, quarantine

\* A Get.
LEMMA GetStep ==
    ASSUME MeshInv, NEW c \in Caller, Get(c)
    PROVE  MeshInv'
<1>1. /\ c = "watcher" /\ quarantine.pc = "get"
      /\ UNCHANGED <<kind, declared, versions, sealed, gone, clean>>
    BY Zenon DEF Get, Kept, MeshInv, MeshTypeOK, Calls, WorkerPCs, Caller,
                 quarantine, release
<1>2. /\ versions \in Int /\ \A n \in DOMAIN objects : objects[n] \in Int
      /\ quarantine.found \in Int
    BY DEF MeshInv, MeshTypeOK, Calls
<1> DEFINE n == Target("watcher")
<1>3. CASE /\ n \in DOMAIN objects
           /\ call' = [call EXCEPT ![c].pc = "update", ![c].found = objects[n]]
           /\ UNCHANGED <<objects, left>>
    <2>1. call' = [call EXCEPT !["watcher"] =
                        [quarantine EXCEPT !.pc = "update", !.found = objects[n]]]
        BY <1>1, <1>3, Zenon DEF MeshInv, MeshTypeOK, Caller, quarantine
    <2> QED BY <1>1, <1>2, <1>3, <2>1, WatcherReads, Zenon
<1>4. CASE /\ n \notin DOMAIN objects
           /\ call' = [call EXCEPT ![c].pc = "create"]
           /\ UNCHANGED <<objects, left>>
    <2>1. call' = [call EXCEPT !["watcher"] =
                    [quarantine EXCEPT !.pc = "create", !.found = quarantine.found]]
        BY <1>1, <1>4, Zenon DEF MeshInv, MeshTypeOK, Calls, Caller, quarantine
    <2> QED BY <1>1, <1>2, <1>4, <2>1, WatcherReads, Zenon
<1>5. CASE APIFails(c, objects)
    BY <1>1, <1>2, <1>5, WatcherAPIFails, Zenon
<1> QED BY <1>1, <1>3, <1>4, <1>5 DEF Get

\* A Create adds the watcher's name. It finds none there, for only the watcher
\* creates.
LEMMA CreateStep ==
    ASSUME MeshInv, NEW c \in Caller, Create(c)
    PROVE  MeshInv'
<1>1. /\ c = "watcher" /\ quarantine.pc = "create" /\ versions' = versions + 1
      /\ UNCHANGED <<kind, declared, sealed, clean>>
    BY DEF Create, Kept, MeshInv, MeshTypeOK, Calls, WorkerPCs, Caller,
           quarantine, release
<1> DEFINE n == Target("watcher")
<1>2. /\ versions \in Int /\ \A m \in DOMAIN objects : objects[m] \in Int
      /\ n \notin DOMAIN objects
    BY <1>1, Zenon DEF MeshInv, MeshTypeOK, WatcherOK
<1>3. /\ n \in quarantine.todo /\ quarantine.todo \subseteq quarantine.names
      /\ quarantine.names \in SUBSET Names
      /\ \A m \in quarantine.names : m.workload \in quarantine.w
      /\ (quarantine.names \ quarantine.todo) \ gone \subseteq DOMAIN objects
      /\ kind \notin {"linkerd", "noop"} => \A m \in quarantine.names : m.port = All
    BY <1>1, AtTarget, Zenon
    DEF MeshInv, MeshTypeOK, Calls, CallOK, WatcherOK, OneObject
<1>4. /\ DOMAIN Created(n) = DOMAIN objects \cup {n}
      /\ \A m \in DOMAIN Created(n) : Created(n)[m] \in Int
    BY <1>2 DEF Created
<1>5. CASE objects' = Created(n) /\ Written(c, n)
    <2>1. /\ Continue("watcher", quarantine.todo \ {n}, quarantine.names)
          /\ gone' = gone \ {n}
        BY <1>1, <1>5, Zenon DEF Written, quarantine
    <2> HIDE DEF n
    <2>2. /\ (quarantine.names \ (quarantine.todo \ {n})) \ gone'
                \subseteq DOMAIN objects'
          /\ gone \ gone' \subseteq DOMAIN objects'
          /\ DOMAIN objects \subseteq DOMAIN objects'
          /\ \A m \in DOMAIN objects' \ DOMAIN objects : m \in quarantine.names
          /\ \A m \in DOMAIN objects' : objects'[m] \in Int
        BY <1>3, <1>4, <1>5, <2>1, Zenon
    <2>3. /\ quarantine.todo \ {n} \in SUBSET Names /\ versions' \in Int
          /\ quarantine.todo \ {n} \subseteq quarantine.names
        BY <1>1, <1>2, <1>3
    <2> QED BY <1>1, <1>3, <2>1, <2>2, <2>3, WatcherStep, Zenon
<1>6. CASE APIFails(c, Created(n)) /\ UNCHANGED gone
    BY <1>1, <1>2, <1>3, <1>4, <1>6, WatcherAPIFails
<1> QED BY <1>1, <1>2, <1>5, <1>6, Zenon DEF Create

\* An Update is refused only when a Release took the object after the Get.
LEMMA UpdateStep ==
    ASSUME MeshInv, NEW c \in Caller, Update(c)
    PROVE  MeshInv'
<1>1. /\ c = "watcher" /\ quarantine.pc = "update"
      /\ UNCHANGED <<kind, declared, versions, sealed, clean>>
    BY DEF Update, Kept, MeshInv, MeshTypeOK, Calls, WorkerPCs, Caller,
           quarantine, release
<1> DEFINE n == Target("watcher")
           same == n \in DOMAIN objects /\ objects[n] = quarantine.found
<1>2. /\ versions \in Int /\ \A m \in DOMAIN objects : objects[m] \in Int
      /\ n \notin gone => same
    BY <1>1, Zenon DEF MeshInv, MeshTypeOK, WatcherOK
<1>3. /\ n \in quarantine.todo /\ quarantine.todo \subseteq quarantine.names
      /\ quarantine.names \in SUBSET Names
      /\ \A m \in quarantine.names : m.workload \in quarantine.w
      /\ (quarantine.names \ quarantine.todo) \ gone \subseteq DOMAIN objects
      /\ kind \notin {"linkerd", "noop"} => \A m \in quarantine.names : m.port = All
    BY <1>1, AtTarget, Zenon
    DEF MeshInv, MeshTypeOK, Calls, CallOK, WatcherOK, OneObject
<1>4. CASE same /\ Written(c, n) /\ UNCHANGED <<objects, left>>
    <2>1. /\ Continue("watcher", quarantine.todo \ {n}, quarantine.names)
          /\ gone' = gone \ {n}
        BY <1>1, <1>4, Zenon DEF Written, quarantine
    <2>2. n \in DOMAIN objects
        BY <1>4
    <2> HIDE DEF n, same
    <2>3. /\ (quarantine.names \ (quarantine.todo \ {n})) \ gone'
                \subseteq DOMAIN objects'
          /\ gone \ gone' \subseteq DOMAIN objects'
          /\ DOMAIN objects \subseteq DOMAIN objects'
          /\ \A m \in DOMAIN objects' \ DOMAIN objects : m \in quarantine.names
          /\ \A m \in DOMAIN objects' : objects'[m] \in Int
        BY <1>2, <1>3, <1>4, <2>1, <2>2, Zenon
    <2>4. /\ quarantine.todo \ {n} \in SUBSET Names /\ versions' \in Int
          /\ quarantine.todo \ {n} \subseteq quarantine.names
        BY <1>1, <1>2, <1>3, Zenon
    <2> QED BY <1>1, <1>3, <2>1, <2>3, <2>4, WatcherStep, Zenon
<1>5. CASE ~same /\ Fail(c) /\ UNCHANGED <<objects, left, gone>>
    <2>1. /\ call' = [call EXCEPT !["watcher"] = [quarantine EXCEPT
                            !.pc = "failed", !.error = quarantine.error]]
          /\ quarantine.error \in BOOLEAN
        BY <1>1, <1>5, Zenon DEF Fail, MeshInv, MeshTypeOK, Calls, Caller, quarantine
    <2>2. n \in gone
        BY <1>2, <1>5, Zenon
    <2> QED BY <1>1, <1>2, <1>5, <2>1, <2>2, WatcherFails, Zenon
<1>6. CASE APIFails(c, objects) /\ UNCHANGED gone
    BY <1>1, <1>2, <1>6, WatcherAPIFails, Zenon
<1> QED BY <1>1, <1>4, <1>5, <1>6, Zenon DEF Update, quarantine

\* A failed API call in a Release, with or without its effect.
LEMMA WorkerAPIFails ==
    ASSUME MeshInv, release.pc # "idle", NEW done, APIFails("worker", done),
           DOMAIN done \subseteq DOMAIN objects,
           \A n \in DOMAIN done : done[n] = objects[n],
           gone \subseteq gone', DOMAIN objects \ DOMAIN done \subseteq gone',
           UNCHANGED <<kind, declared, versions, sealed, clean>>
    PROVE  MeshInv'
<1> DEFINE k == [release EXCEPT !.pc = "failed", !.error = TRUE]
<1>1. call' = [call EXCEPT !["worker"] = k]
    BY Zenon DEF APIFails, MeshInv, MeshTypeOK, Caller, release
<1>2. /\ k \in Calls(WorkerPCs) /\ k.pc = "failed" /\ k.error = TRUE
      /\ k.w = release.w /\ k.alone = release.alone
      /\ k.todo = release.todo /\ k.names = release.names
    BY Zenon DEF MeshInv, MeshTypeOK, Calls, WorkerPCs
<1> HIDE DEF k
<1>3. CallOK(k)
    BY <1>2, Zenon DEF MeshInv, CallOK
<1>4. objects' = objects \/ objects' = done
    BY Zenon DEF APIFails
<1> QED BY <1>1, <1>2, <1>3, <1>4, WorkerStep, Zenon

\* A Release goes on with names of its workload.
LEMMA WorkerGoesOn ==
    ASSUME MeshInv, release.pc # "idle",
           NEW todo \in SUBSET Names, NEW names \in SUBSET Names,
           Continue("worker", todo, names), todo \subseteq names,
           \A n \in names : n.workload \in release.w,
           DOMAIN objects' \subseteq DOMAIN objects,
           \A n \in DOMAIN objects' : objects'[n] = objects[n],
           gone \subseteq gone', DOMAIN objects \ DOMAIN objects' \subseteq gone',
           release.alone /\ kind # "noop" =>
               \A n \in DOMAIN objects' : n.workload \in release.w => n \in todo,
           UNCHANGED <<kind, declared, versions, sealed, clean>>
    PROVE  MeshInv'
<1> DEFINE k == [release EXCEPT !.todo = todo, !.names = names,
                               !.pc = IF todo = {} THEN "ok" ELSE "delete"]
<1>1. call' = [call EXCEPT !["worker"] = k]
    <2>1. /\ call' = [c \in Caller |-> call'[c]]
          /\ call'["watcher"] = call["watcher"] /\ call'["worker"] = k
        BY WorkerContinues, Zenon DEF MeshInv, quarantine, release
    <2>2. call = [c \in Caller |-> call[c]]
        BY DEF MeshInv, MeshTypeOK
    <2> HIDE DEF k
    <2> QED BY <2>1, <2>2, Zenon DEF Caller
<1>2. /\ k \in Calls(WorkerPCs)
      /\ k.pc = IF todo = {} THEN "ok" ELSE "delete"
      /\ k.w = release.w /\ k.alone = release.alone
      /\ k.todo = todo /\ k.names = names
    BY Zenon DEF MeshInv, MeshTypeOK, Calls, WorkerPCs
<1> HIDE DEF k
<1>3. CallOK(k)
    BY <1>2, Zenon DEF MeshInv, CallOK
<1> QED BY <1>1, <1>2, <1>3, WorkerStep, Zenon

\* Listing finds every object of the workload.
LEMMA ListStep ==
    ASSUME MeshInv, NEW c \in Caller, List(c)
    PROVE  MeshInv'
<1>1. /\ c = "worker" /\ release.pc = "list"
      /\ UNCHANGED <<kind, declared, versions, sealed, gone, clean>>
    BY DEF List, Kept, MeshInv, MeshTypeOK, Calls, WatcherPCs, Caller,
           quarantine, release
<1>2. PICK w \in release.w :
        LET names == CASE kind = "noop" -> {}
                       [] kind = "linkerd" -> Of(w)
                       [] OTHER -> {Name(w, All)}
        IN  \/ Continue(c, names, names) /\ UNCHANGED <<objects, left>>
            \/ kind = "linkerd" /\ APIFails(c, objects)
    BY <1>1, Zenon DEF List, release
<1> DEFINE names == CASE kind = "noop" -> {}
                      [] kind = "linkerd" -> Of(w)
                      [] OTHER -> {Name(w, All)}
<1>3. w \in Workload /\ \A v \in release.w : v = w
    BY DEF MeshInv, MeshTypeOK, CallOK, Calls
<1>4. names \in SUBSET Names /\ \A n \in names : n.workload = w
    <2>1. Name(w, All) \in Names /\ Name(w, All).workload = w
        BY <1>3, Zenon DEF Name, Names
    <2> QED BY <2>1, Zenon DEF MeshInv, MeshTypeOK, Of
<1>5. ASSUME kind # "noop", NEW n \in DOMAIN objects, n.workload = w
      PROVE  n \in names
    <2>1. CASE kind = "linkerd"
        BY <1>5, <2>1, Zenon DEF Of
    <2>2. CASE kind # "linkerd"
        <3>1. n.port = All /\ n \in Names
            BY <1>5, <2>2, Zenon DEF MeshInv, MeshTypeOK, OneObject
        <3>2. n = Name(w, All)
            BY <1>5, <3>1, Zenon DEF Name, Names
        <3> QED BY <1>5, <2>2, <3>2, Zenon
    <2> QED BY <2>1, <2>2, Zenon
<1> HIDE DEF names
<1>6. CASE Continue(c, names, names) /\ UNCHANGED <<objects, left>>
    BY <1>1, <1>3, <1>4, <1>5, <1>6, WorkerGoesOn, Zenon
<1>7. CASE APIFails(c, objects)
    BY <1>1, <1>7, WorkerAPIFails, Zenon
<1> QED BY <1>2, <1>6, <1>7, Zenon DEF names

\* A Delete takes one name of the workload away.
LEMMA DeleteStep ==
    ASSUME MeshInv, NEW c \in Caller, Delete(c)
    PROVE  MeshInv'
<1>1. /\ c = "worker" /\ release.pc = "delete"
      /\ UNCHANGED <<kind, declared, versions, sealed, clean>>
    BY DEF Delete, Kept, MeshInv, MeshTypeOK, Calls, WatcherPCs, Caller,
           quarantine, release
<1>2. PICK n \in release.todo :
        LET done == [m \in DOMAIN objects \ {n} |-> objects[m]]
        IN  /\ \/ /\ objects' = done
                  /\ Continue("worker", release.todo \ {n}, release.names)
               \/ APIFails("worker", done)
            /\ gone' = gone \cup {n}
    BY <1>1, Zenon DEF Delete, release
<1> DEFINE done == [m \in DOMAIN objects \ {n} |-> objects[m]]
<1>3. /\ DOMAIN done = DOMAIN objects \ {n}
      /\ \A m \in DOMAIN done : done[m] = objects[m]
    BY Zenon
<1> HIDE DEF done
<1>4. /\ n \in release.names /\ release.todo \subseteq release.names
      /\ release.names \in SUBSET Names
      /\ \A m \in release.names : m.workload \in release.w
      /\ release.alone /\ kind # "noop" =>
            \A m \in DOMAIN objects : m.workload \in release.w => m \in release.todo
    BY <1>1, Zenon DEF MeshInv, MeshTypeOK, Calls, CallOK, WorkerOK
<1>5. gone' = gone \cup {n}
    BY <1>2, Zenon
<1>6. CASE /\ objects' = done
           /\ Continue("worker", release.todo \ {n}, release.names)
    BY <1>1, <1>3, <1>4, <1>5, <1>6, WorkerGoesOn
<1>7. CASE APIFails("worker", done)
    BY <1>1, <1>3, <1>5, <1>7, WorkerAPIFails, Zenon
<1> QED BY <1>2, <1>6, <1>7, Zenon DEF done

-----------------------------------------------------------------------------
\* Every step of the adapters keeps what their calls have promised.
LEMMA MeshStep == MeshInv /\ [MeshNext]_meshVars => MeshInv'
<1> SUFFICES ASSUME MeshInv, [MeshNext]_meshVars PROVE MeshInv'
    OBVIOUS
<1>1. ASSUME UNCHANGED <<kind, objects, versions, call, sealed, gone, clean>>,
             declared' \in [Workload -> SUBSET Port]
      PROVE  MeshInv'
    <2>1. UNCHANGED <<quarantine, release, Target("watcher")>>
        BY <1>1, Zenon DEF quarantine, release, Target
    <2>2. MeshTypeOK' /\ CallOK(quarantine)' /\ CallOK(release)'
        BY <1>1, <2>1, Zenon DEF MeshInv, MeshTypeOK, CallOK
    <2> QED BY <1>1, <2>1, <2>2, Zenon
            DEF MeshInv, Met, WatcherOK, OneObject, WorkerOK, Promised
<1>2. CASE UNCHANGED meshVars
    BY <1>1, <1>2, Zenon DEF meshVars, MeshInv, MeshTypeOK
<1>3. ASSUME NEW w \in Workload, PodsChange(w) PROVE MeshInv'
    BY <1>1, <1>3, Zenon DEF PodsChange, MeshInv, MeshTypeOK
<1> QED
    BY <1>2, <1>3, QuarantineStep, ReleaseStep, DiscoverStep, GetStep,
       CreateStep, UpdateStep, ListStep, DeleteStep, ReturnStep, Zenon
    DEF MeshNext

\* The invariant of the adapters, from any Pods and for any adapter.
LEMMA MeshInvariance == MeshSpec => []MeshInv
<1>1. ASSUME MeshInit PROVE MeshInv
    <2>1. /\ call = [c \in Caller |-> NoCall]
          /\ quarantine = NoCall /\ release = NoCall
        BY <1>1, Zenon DEF MeshInit, Caller, quarantine, release
    <2>2. /\ NoCall \in Calls(WatcherPCs) /\ NoCall \in Calls(WorkerPCs)
          /\ CallOK(NoCall) /\ NoCall.w = {} /\ NoCall.names = {}
          /\ NoCall.pc = "idle"
        BY DEF NoCall, Calls, WatcherPCs, WorkerPCs, CallOK
    <2>3. /\ DOMAIN objects = {} /\ versions = 0 /\ sealed = {} /\ clean = {}
          /\ declared \in [Workload -> SUBSET Port]
        BY <1>1 DEF MeshInit
    <2>4. MeshTypeOK
        BY <2>1, <2>2, <2>3 DEF MeshTypeOK
    <2>5. CallOK(quarantine) /\ CallOK(release)
        BY <2>1, <2>2, Zenon
    <2>6. Met /\ WorkerOK /\ Promised
        BY <2>1, <2>2, <2>3, Zenon DEF Met, WorkerOK, Promised
    <2>7. WatcherOK /\ OneObject
        BY <2>1, <2>2, <2>3, Zenon DEF WatcherOK, OneObject
    <2> QED
        BY <2>4, <2>5, <2>6, <2>7, Zenon DEF MeshInv
<1> QED BY <1>1, MeshStep, PTL DEF MeshSpec

\* Quarantine: what a call that returned nil has denied stays denied until a
\* Release asks for that object's deletion, whatever fails, whichever call the
\* other comes between, and however the Pods change.
THEOREM QuarantineComplete == MeshSpec => []QuarantineIsComplete
<1>1. MeshInv => QuarantineIsComplete
    BY Zenon DEF MeshInv, Promised, QuarantineIsComplete
<1> QED BY <1>1, MeshInvariance, PTL

\* Release: a call that returned nil, and met no Quarantine, has left no deny
\* object of the workload, whatever ports it had been quarantined with.
THEOREM ReleaseComplete == MeshSpec => []ReleaseIsComplete
<1>1. MeshInv => ReleaseIsComplete
    BY Zenon DEF MeshInv, Promised, ReleaseIsComplete, Of
<1> QED BY <1>1, MeshInvariance, PTL

\* Quarantine and Release are idempotent: a call fails only with an API call or
\* for want of ports, and a Quarantine when a Release deletes its object.
THEOREM Idempotent == MeshSpec => []CallsAreIdempotent
<1>1. MeshInv => CallsAreIdempotent
    BY Zenon DEF MeshInv, WatcherOK, WorkerOK, CallsAreIdempotent, Caller,
                 quarantine, release
<1> QED BY <1>1, MeshInvariance, PTL
=============================================================================
