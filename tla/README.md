# Sentinel5G: TLA+ models and proofs

Sentinel5G protects the workloads of a 5G core on Kubernetes. An XDP program
observes and drops packets, an AI engine scores the events, and an operator
turns scores into mitigations: drops in eBPF maps and quarantines in a service
mesh. It lifts them again after a quiet period. This directory holds TLA+
modules translated from that code, the instances TLC checks, and theorems that
TLAPS proves.

## The system

| Part | Source | State | Module |
|---|---|---|---|
| Policy resource | `api/v1alpha1` | stored objects | `TelecomSecurityPolicy` |
| Score watcher | `pkg/controller/threat_score_watcher.go` | one goroutine | `ThreatScoreWatcher` |
| Policy controller | `pkg/controller/telecomsecuritypolicy_controller.go` | one worker | `PolicyReconciler` |
| Blocklist reconciler | `pkg/controller/blocklist_reconciler.go` | one goroutine per node, the unclaimed set | `BlocklistReconciler` |
| Policy index | `pkg/controller/policy_index.go` | copies of policies | `Cluster` (`index`) |
| Scoring tracker | `pkg/controller/scoring_pipeline.go` | first score, grace period | `Cluster` (`tracker`), `PolicyReconciler` |
| Enforcement maps | `pkg/ebpf` | two non-evicting hash maps | `Cluster` (`kernel`) |
| Map pinning | `pkg/ebpf/pin_linux.go` | maps that outlive the process | `MitigationLoop` (`Restart`) |
| Kill switch | `pkg/controller/killswitch.go` | cached answer | `KillSwitch`, `ScoreGates`; in the loop, `Cluster` (`engaged`), read at once |
| Rate limit | `pkg/controller/reactor_limiter.go` | token buckets | `ReactorLimiter`, `ScoreGates`; in the loop, `ThreatScoreWatcher` |
| Mesh adapters | `pkg/mesh` | policies of the mesh | `MeshAdapters`; in the loop, `Cluster` (`mesh`, a set) |
| Event bus | `pkg/events` | connection, JetStream subjects | `EventBus`; deliveries of scores in `ThreatScoreWatcher` |
| Pod address index | `pkg/controller/pod_ip_index*.go` | two maps | `PodIPIndex` |
| Flood detectors | `pkg/detect` | cooldown ring, source window | `Detect` |
| Publisher | `pkg/ingestion` | a batch | `Publisher` |
| Packet filter | `bpf/packet_filter.c` | LRU rate maps, blocklists, ring buffers | `PacketFilter`, `GTPU` |
| AI engine | `cmd/ai-engine` | consumer loop, model | `AIEngine` (the loop) |
| Hubble observer | `pkg/hubble` | retry loop, backoff | `HubbleObserver` |
| Falco bridge | `pkg/falco` | HTTP answers | `FalcoBridge` |
| Start-up, configuration, metrics | `cmd`, `pkg/config`, `metrics.go` | none after start | not modelled |

How they interact: the packet filter and the other capture paths emit events,
which are attributed to Pods and published. The AI engine and the flood
detectors turn them into scores. The watcher applies a score to every matching
policy of the index: it writes the status first, then the maps, then the mesh.
Its writes wake the controller, which requeues the policy until the dwell is
over and then undoes what the status lists. The blocklist reconciler compares
status and maps in both directions. Every one of these works on a copy of the
policy that may be old; the API server's resourceVersion check is what orders
them.

## The modules

`TelecomSecurityPolicy` holds the resource and the pure decisions: `Threshold`,
`Keys`, `Actions`, `Decide`. A status is a record with the phase, the observed
score, `last` (LastMitigationTime), `blocked` (both lists together: source
addresses, and pairs of address and TEID) and the reason of the
ScoringPipelineReady condition.

`Cluster` holds what the goroutines share and what happens around them. A copy
of a policy is a version number: `hist[p]` lists every version the API server
has stored, `seen[p]` is what the informer cache holds and `index[p]` what
PolicyIndex holds. An update is accepted from the last version only, and an
update that changes nothing makes no new version and no event. A call that
fails may have had its effect all the same (`CallFails`, `UpdateFails`): only
the reply was lost. A deletion of an
object with a finalizer marks it; removing the finalizer removes the object.

`ThreatScoreWatcher`, `PolicyReconciler` and `BlocklistReconciler` give each
goroutine a record with its program counter and locals. A step ends where
another goroutine could see or disturb the result: at each API write, index
update, map or mesh call. Local computation up to the next such call belongs to
the step.

| Code | Actions |
|---|---|
| `Start`, `warmIndex` | `WarmList`, `WarmPut`, `Subscribe` |
| `handle` | `Handle`, `HandleNothing` |
| `applyPolicy`, `writeStatus` | `ApplyWrites`, `ApplyFails`, `ApplyThrottled` |
| `updateStatus` | `WatcherPut` |
| blocks and quarantine | `Block`, `Quarantine`, `ActionFails`, `ApplyDone` |
| `Reconcile` | `ReconcileGet`, `AddFinalizer`, `ReconcilePut`, `InitPhase` |
| `reportScoringPipeline` | `ReportScoring` |
| `tryDeEscalate` | `AwaitQuiet`, `DeEscalateUnblock`, `DeEscalateRelease`, `DeEscalateClear` |
| `finalize` | `FinalizeRelease`, `FinalizeUnblock`, `FinalizeRemove`, `FinalizeForget` |
| `Sync` | `SyncList`, `SyncRead`, `SyncReadFails`, `Reapply`, `RemoveUnclaimed`, `SyncEnd` |

`MitigationLoop` composes them with `Restart` and states the properties.
`MCMitigationLoop` names the small sets the instances use.

`Enforcement` is the abstract specification: what the loop promises without its
goroutines, caches and write conflicts. A policy claims keys; claims grow with
a dated mitigation (`Escalate`), are given up all at once after a dwell without
another (`Calm`), and stay as they are from the deletion on (`Leave`, `Gone`);
the kernel drops only what was ever claimed (`Enforce`). `MitigationLoop`
instantiates it: a claim is read off the stored object (`ClaimOf`), `drops` is
the content of the maps. `KeepsPromise` says that the loop implements it.

`ReactorLimiter` has the token buckets of golang.org/x/time/rate as `Allow` uses
them. The watcher holds them in `watcher.bucket`: a write that changes the
decision is sent without asking, any other takes a token or is throttled
(`Sends`, `Tokens`); `Burst = 0` is an operator without a limiter. `ScoreGates`
takes one score after another through `applyPolicy`'s gates: `KillSwitch` from
its cache or with a Get, then the limiter, then the write; and through the dwell
behind them. It keeps the date of the last score that mitigated, which the code
does not store, and compares. `KillSwitch` keeps as history whether a Get has
been answered since the ConfigMap last changed (`heard`): from then on no
failing Get excuses a wrong answer.

`GTPU` is `parse_gtpu`: the offset after each turn of its loop over the
extension headers (`Offsets`), next to a reference definition of a sound header
that knows no turns and no early returns (`FrameIsSound`). `PacketFilter` runs
`xdp_packet_filter` on several CPUs. A step ends at each access to shared
memory: the lookup, the two stores that begin a window, the read and the write
of an increment, the blocklist check, the emission. A run may hold a pointer to
an element that was evicted; a store through it has no effect, although the
kernel may meanwhile have given the element to another key, whose entry the
store would then reach. The verdict of a run (drop or pass) is not kept, as
nothing reads it back. A node is a record of its traffic, queues and bounds,
chosen in the initial state. What the code does not keep and the properties need
is history: the times of the packets each entry counted and the windows it
reported, in order, the ports that were tried, and the packets each CPU counted
for a key since it was blocked.

`MeshAdapters` has Quarantine and Release of the Istio, Cilium and Linkerd
adapters one API call at a time (`List`, `Get`, `Create`, `Update`, `Delete`).
A call can fail with or without its effect, and ends with `EndCall`; Pods
change their ports meanwhile. The history `gone` has the names a Release has
asked to delete since they were last written; it is all that a Quarantine's
promise, or the success of one, may depend on when the two run into each other.

`PodIPIndex` stands by itself: Pods change in the API server, the informer
learns of it later (`PodInformer`), the queue merges the events of a Pod, and
`PodIPIndexer.Reconcile` is two steps, the Get (`PodGet`) and what it does to
the maps (`PodIndexed`, with `Put` and `Remove`).

`KillSwitch` splits `Engaged` at its Get: `Send` (the cache does not answer),
`Serve` (the API server reads the ConfigMap, or fails) and `Return`. Its mutex
makes calls follow one another; the ConfigMap and the clock move in between. A
call that the cache answers changes nothing and is the state predicate `Fresh`.

`Detect`, `EventBus`, `Publisher`, `AIEngine` and `EventPath` follow a packet up
to its score. `Detect` has `Evaluate` of both rules as operators on the
detectors' state (`EvaluateTunnel`, `EvaluateSource`), with the ring that evicts
in order of insertion (`Evicted`, `Enter`). `Publisher` is the loop of `Start`:
`Drop` before NATS is connected, `Receive` (both rules, then the batch, then a
flush when it is full), `TickerFlush` and `Stop`. Events are numbered in order
of arrival. In `EventBus` a publish that fails may have been stored all the
same. `AIEngine` has the replicas of `run_nats_worker`, which share a durable
consumer: `Deliver`, `ScoreEvent` for each event of the message, then `Ack`, or
`ScoreFails` (nack of the whole message); `ReplicaDies` and `Expire` are the
failures that JetStream answers with a redelivery. A message is delivered to a
free replica. The subscription is a push consumer, whose client may hold
messages behind the one being handled while their ack wait runs; the model has
no such queue, so that a delivery expires only at the replica that is at work on
it. Every message of the model parses, so that the branch for a malformed one
(`msg.term()`, `server.py:251`) is left out. `HubbleObserver` is the retry loop
around the flow stream, `FalcoBridge` the HTTP handler with its early returns;
each of their events is a message of its own. `EventPath` composes the three
sources and the replicas over one subject. The scores end in `threats`, with the
number of copies of each; the watcher takes any score of `Scores` any number of
times, so it does not depend on this path.

Abstractions: one namespace and one workload selector per policy; scores in per
cent; the two sets read by `Sync` are read together, and its corrections come
in any order; a partial unblock loop removes any set of keys that respects
"addresses before tunnels"; in the loop a change of the kill switch is seen at
once (`ScoreGates` has its cache); the 32-bit hash in a quarantine's name is
taken to be injective; a
RequeueAfter may fire early, since `Reconcile` looks at the clock itself. The
score watcher's error returns are logged by `handle` and the message is acked,
so a failed policy is not retried for that score.

## Runs

Bounds: in the loop, user operations, scores, restarts and failed calls are each
limited, counted down in `left`. `Budgets` is a set of such limits and each
behaviour starts with one of them, so that one run has both "two scores and no
failure" and "one score and one failure". Everything the operator does by itself
is unbounded. The clock runs only while a dwell does or a bucket is filling, and
`Dwell = 1` tick separates "too early" from "quiet long enough". One policy with
one key already has the races between the three goroutines; `loop_edits` and
`loop_liveness` have two keys, a tunnel and an address. The blocklist of
`loop_liveness` is full of other policies' entries (`BlocklistCap` is the room
beside them): every block of the address is refused, by the watcher and by each
pass of `Sync`, while the tunnel has room. A claim that waits until a full map
has room again is in the model and in no run. The limiter has one token in
`loop_edits`, `loop_liveness` and `loop_throttle`; the other loop runs have
none. No run has two policies: the theorems below cover the safety properties
for any number of them, but the liveness of policies that share a key is not
checked (that instance is too large).

| Run | Asks |
|---|---|
| `loop_edits` | write-ahead, timed claims, release after quiet, frozen deletion, and the refinement of `Enforcement`, with spec edits, the kill switch and failed calls |
| `loop_liveness` | all goroutines, a restart or a failed call, a deletion, a full blocklist: the safety properties, everything is lifted if time passes, and every claim that there is room for reaches the kernel if it does not |
| `loop_scoring` | the scoring condition reaches a policy, also one created after the only score |
| `pod_reuse` | every entry of the Pod index can be evicted, and attribution settles |
| `score_gates` | an engaged kill switch stops mitigation within a TTL and a Get, and failing Gets do not lift it; refreshes and de-escalation lag by less than a token |
| `ingest_floods` | reports are remembered for a turn of the ring, source reports are real, sustained floods are reported |
| `events_scored` | batching, acks and redelivery lose and repeat nothing beyond failed publishes and deliveries; an alert answered OK is scored; the observer streams again |
| `filter_cpus` | counters are never too high and are exact without races; one report per window; port scans are real; blocked traffic is silent; malformed headers are marked and attributed |
| `mesh_calls` | what a Quarantine or Release that returned nil has promised holds, also when they run into each other; calls are idempotent |
| `loop_killswitch`, `loop_throttle`, `loop_quarantine` | three statements of the docs and comments that the code does not keep |

The Pod run has two Pods, two addresses and `MaxPodOps` changes, enough for an
address to go from one Pod to the other and back. `score_gates` has a TTL of two
ticks and Gets of at most one, so that the two can be told apart, a token every
two ticks with a burst of two, a dwell longer than a token, and `MaxClock` for
several of each. `ingest_floods` has more tunnels than `Capacity`, more sources
than `MaxTrackedSources` and enough packets and ticks for a burst of twice the
threshold across two windows. In `events_scored` and `ingest_floods`, `Loads`
is the set of which sources run, how many packets, flows and alerts arrive and
how many failures there are: the publisher by itself, the observer with the
bridge, and the publisher with the bridge. There are fewer failures than
deliveries (`MaxDeliver`), as a message that fails five times in the code is
given up; a late answer, a lost ack, a dead replica, a broken stream and a
failed publish all count as failures. `filter_cpus` has `Nodes`: every GTP-U
header that is cut or too long around each limit, once; and small traffic of
tunnels, of probes and of IPv6 on one queue and on two, with a block, an
eviction and up to four packets, enough for a window to roll while another
CPU is inside it. Its thresholds are 2 and 3 in place of the code's, its limits
on GTP-U headers are the code's. `mesh_calls` has one workload, two ports, six
calls, two changes of the ports and two failures, for each adapter.

The runs with a bounded environment that is used up, those without `Sync`, do
not check for deadlock; `loop_liveness` and `loop_killswitch` do.

Fairness (`Scheduling`): each goroutine keeps running, informer events arrive
and requeues fire (weak fairness), and no queued policy is passed over for ever
(strong fairness per policy; the work queue is first-in first-out). `FairSpec`
adds that time passes. Nothing is assumed of users, scores, failures and
restarts: they may stop at any point and must stop at their bounds.
`loop_liveness` leaves the fairness of the clock out of its specification,
because with it every claim disappears by itself and `ClaimIsEnforced` would
say little; `TimeLiftsEverything` has it as a premise instead. `PodFairSpec` is
the same scheduling for the Pod index. `PathSpec` has the ticker, the observer's
loop, JetStream and the replicas go on.

### Findings

* `loop_killswitch`: a score that crosses while the kill switch is engaged, or
  while autoMitigate is off, turns a Mitigating policy Alerting and keeps its
  claims. Only Mitigating policies are de-escalated, so the drop stays.
  `docs/production-install.md` says that existing blocks de-escalate normally.
* `loop_throttle`: `writeStatus` compares with the indexed copy. Between a
  de-escalation's status write and its index update, a write that would change
  the stored decision looks like a refresh and asks the limiter. In the trace a
  benign score has refreshed the status before the de-escalation and taken the
  only token, so the mitigating one is throttled.
* `loop_quarantine`: the watcher's status write is accepted, the policy is
  deleted, `finalize` releases the workload, and then the watcher quarantines it.
  `finalize` removes the finalizer, and the quarantine outlives the policy.
* `EveryDropWasRecorded` (`loop_edits`, `loop_liveness`) holds, and the
  write-ahead clause of `KeepsPromise` with it: `applyPolicy` persists the status
  before it touches the kernel (`threat_score_watcher.go:228`). The comment in
  `Sync` says that it "blocks in the kernel BEFORE it writes the status that
  claims the block" (`blocklist_reconciler.go:271`), and so do
  `blocklist_reconciler_test.go:274`, `docs/observability.md:115`,
  `ROADMAP.md:483` and `docs/paper-data/04-validation-testing-logs.md:307`. They
  describe an earlier order. What they explain, that a removal waits for a
  second pass, is still needed: the drop is in the kernel before the informer
  cache shows the status that claims it.

The models also show the following, which has no run of its own although some
comments in the code, read literally, say otherwise. `warmIndex` can put an
older version over a newer one; the version
check refuses what is written from it. A finished Pod keeps its address in its
status and, reconciled after the address has a new owner, takes the entry over
(with `ReuseFinished`; `pod_reuse` sets it to FALSE). A deletion of a Pod that is
merged with its recreation never reaches `Remove`; the entry stays until the new Pod
has an address. Until one Get has succeeded the kill switch caches nothing, and
its TTL starts when the Get returns. A flood report whose publish fails is not
repeated before the cooldown is over.

* Packets dropped for a blocked tunnel have already been counted for their
  source (`packet_filter.c:886`), although the comment at `:908` says that
  dropped packets are not rate-tracked. `BlockedTrafficIsSilent` is about the
  counters of the blocked key.
* On several receive queues two CPUs can enter the same port into a port-scan
  entry, or overwrite a port, which then counts again when it is next seen. A
  scan can be reported below its threshold of distinct ports, or twice
  (`packet_filter.c:607`; the comment at `:573` says "exactly once").
  `PortScanIsReal` says that the ports are as many as the threshold where one
  queue reaches the entry, and at least two anywhere: how far below the
  threshold a race can go depends on the number of CPUs and is not stated.
  `OneReportPerWindow` is stated for entries that one queue reaches.
* `now - window_start_ns` is unsigned: for a run whose timestamp is older than
  the start another CPU has just stored it wraps round, and the run begins the
  window anew (`Expired`).
* A benign score's refresh takes the token of the next mitigating one
  (`threat_score_watcher.go:345`) and leaves LastMitigationTime behind, which
  is why `QuietBeforeDeEscalation` has a premise.
* `ReactorLimiter.Forget` is called by tests only, although its comment says
  when it is called. The observer's backoff is never reset, although the
  comment at `observer.go:109` says that a stream that starts resets it.

## Proofs

For every set of policies, addresses, tunnels and workloads, every spec and
every bound, from the assumptions `PolicyAssumption`, `ClusterAssumption`,
`WatcherAssumption`, `SyncAssumption` and `LoopAssumption`:

| Theorem | Module | States |
|---|---|---|
| `Invariance` | `MitigationLoopProofs` | `Spec => []IndInv` |
| `TypeCorrectness` | `MitigationLoopProofs` | `[]TypeOK` |
| `WriteAhead` | `MitigationLoopProofs` | `[]EveryDropWasRecorded` |
| `MitigationTimed` | `MitigationLoopProofs` | `[]MitigationIsTimed` |
| `ReleaseAfterQuiet` | `MitigationLoopProofs` | `QuietBeforeRelease`, an action property |
| `DeletionFreezesStatus` | `MitigationLoopProofs` | `DeletingStatusIsFrozen`, an action property |
| `LoopKeepsPromise` | `MitigationLoopProofs` | `KeepsPromise`: the loop implements `Enforcement` |

None of the properties is inductive by itself. `EveryDropWasRecorded` needs to
know of every key that is on its way to the kernel: the watcher's pending
actions (`WatcherInv`) and the keys `Sync` holds (`SyncInv`) were all claimed
by a stored version. `DeletingStatusIsFrozen` needs that every copy that might
be written as a status, in the index, in the watcher's list or in the worker's
hand, is a version from before the deletion (`IndexInv`, `WatcherInv`,
`WorkerInv`): the version check then refuses it. `QuietBeforeRelease` needs
that a worker past the dwell check holds a Mitigating version whose dwell is
over; if the version check accepts its write, that version is the stored one.
`MitigationIsTimed` rules out the branch in which `tryDeEscalate` gives up.
`IndInv` is the conjunction. Its proof has a lemma per action, resting on a few
lemmas on what storing a version does (`StoreEffect`, `OthersKept`), also when
the call that stores it returns an error (`StoreFailsKeeps`), and on what
a step keeps when it only touches one goroutine. The two action properties
follow from `IndInv` by a case distinction on the steps that store a version.

`LoopKeepsPromise` is the refinement: the initial states map to
`EnforcementInit`, and under `IndInv` every step maps to a step of
`Enforcement` or to a stutter. A step that stores a version becomes `Announce`,
`Escalate`, `StandDown`, `Calm`, `Leave` or `Gone` by what it writes; a step on
the maps becomes `Enforce`, which needs `EveryDropWasRecorded` in the next
state; everything the goroutines do with their copies is invisible.

The other components, each for every value of its constants:

| Theorem | Module | States |
|---|---|---|
| `ReachableEntries` | `OperatorProofs` | `[]EntriesAreReachable` |
| `CachedAnswer` | `OperatorProofs` | `[]CachedAnswerIsCurrent` |
| `ArmedSwitch` | `OperatorProofs` | `ArmedSwitchStops`, an action property |
| `RefreshRecent` | `OperatorProofs` | `[]RefreshIsRecent` |
| `QuietDeEscalation` | `OperatorProofs` | `QuietBeforeDeEscalation`, an action property |
| `QuarantineComplete` | `OperatorProofs` | `[]QuarantineIsComplete` |
| `ReleaseComplete` | `OperatorProofs` | `[]ReleaseIsComplete` |
| `Idempotent` | `OperatorProofs` | `[]CallsAreIdempotent` |
| `EventInOnePlace` | `EventPathProofs` | `[]EveryEventIsInOnePlace` |
| `AckedScored` | `EventPathProofs` | `[]AckedIsScored` |
| `ScoredOncePerDelivery` | `EventPathProofs` | `[]OneScorePerDelivery` |
| `Remembered` | `DetectProofs` | `[]ReportsAreRemembered` |
| `ReportsAreReal` | `DetectProofs` | `SourceReportIsReal`, an action property |
| `FloodsAreReported` | `DetectProofs` | `[]SustainedFloodIsReported` |
| `BlockedIsSilent` | `PacketFilterProofs` | `[]BlockedTrafficIsSilent` |
| `CountsHold` | `PacketCountProofs` | `[]CountsAreReal` |
| `ReportsHold` | `PacketCountProofs` | `[]OneReportPerWindow` |
| `PortScansHold` | `PacketReportProofs` | `[]PortScanIsReal` |
| `AttributionHolds` | `PacketReportProofs` | `[]MalformedIsAttributed` |
| `MarkingHolds` | `PacketReportProofs` | `[]MalformedIsMarked` |

*The Pod index and the gates* (`OperatorProofs`). `EntriesAreReachable`, with
its typing, is inductive for all Pods, addresses and orders of events (from
`PodAssumption`). `SwitchInv` follows the kill switch's answer on its way: it
may miss changes since its Get was sent, which is at most `MaxLatency` before
`lastChecked`, and none once a Get has been answered since the last change, as a
failed Get keeps the answer before it (from `SwitchAssumption`). `GatesInv` adds
that a bucket holds at least the ticks between the last write that was sent and
the last time it was drawn from: a refusal therefore means that a write was sent
less than a token's time ago (from `LimiterAssumption` and `GatesAssumption` as
well).

*The mesh adapters* (`OperatorProofs`, from `MeshAssumption`). A promise is made
when a call returns, so the invariant `MeshInv` says what a call has done so
far. Of the names a Quarantine has been through, the objects exist, and the
object it has read is still that one, unless a Release has asked for its
deletion (`WatcherOK`); a create finds nothing in its way, since nobody else
creates. So an update is refused only for an object in `gone`. What a Release
has listed and not deleted is all there is of its workload (`WorkerOK`), unless
a Quarantine has met it: two calls that are at one workload have both met
(`Met`), and then the Release promises nothing.

*The event path* (from `BusAssumption`, `DetectAssumption`,
`PublisherAssumption` and `EngineAssumption`). `SourceInv` is about the
sources: an event that was taken waits, is published or was given up
(`Accounted`), and no number is in two places (`Unrepeated`). A failed publish
may or may not have stored its message, so lost and published overlap; what
must not happen is that the batch keeps an event that was published.
`EventPathProofs` has first the replicas on any stream whose events have one place
(`StreamOK`): a replica has scored what it has passed, and the delivery it works
on has scored nothing it has not reached (`Passed`); no two replicas have the
same delivery (`OwnDelivery`). The second is what makes a late replica and its
successor harmless, and needs the number of the delivery, which the code does
not keep: it is history in `replica` and in the scores. `PathInv` puts the two
together.

*The flood rules* (from `DetectAssumption` and `PublisherAssumption`, the latter
saying that a packet with a tunnel identity has one of the modelled sources and
tunnels). For the tunnel rule `TunnelInv` says that the ring holds the tracked
tunnels in order of age: the slot under `next` is the oldest, so that map and
ring evict the same tunnel (`OldestGoes`). For the source rule the packets of
the last `Window` are kept in a history `log`, and `FloodInv` says how the
window the code keeps lies in it. The log is the packets of the window, after
packets that all came from one earlier window (`Placed`), which was reported if
they are a flood (`FloodReported`), as the current one was if it is
(`CrossingReported`). Twice a threshold within a `Window` is a whole threshold
in one of the two parts. `FloodLogProofs` has the facts about a log and its
window: rolling the window (`RollFits`), counting a packet in it (`CountFits`)
and letting packets grow old (`TickFits`).

*The packet filter* (from `FilterAssumption` and `GTPUAssumption`: TEID 0 is no
tunnel's, a scan takes two packets or ports at least, the packets and queues of
a node are of the modelled kinds, the parser's limit is no less than the 12 bytes
before the chain). The trackers differ in their maps and not in what they
do to one, so `PacketFilterProofs` first brings every step down to a few kinds
(`Kinds`): a run does nothing to the entries (`Quiet`), looks one up (`Looks`),
stores the start of a window (`Rolls`), or stores a count (`Counts`) or a port
(`Touches`); the runs of other CPUs keep their place and at most lose the element
they point to (`Bystander`). Each invariant then has one case per kind.

* `SilentInv`: a CPU that is past the check of a blocked key, and has yet to
  count for it, has not done so since the block. No run comes to be past the
  check of a key that is blocked, so a CPU counts once at most.
* `UpperInv`: neither an entry nor a copy that a run has in hand is above the
  number of packets counted for the key. A run stores a copy plus one together
  with its own packet, so a lost update can only make the counter too low.
* `ExactInv` is about an entry that one queue reaches and that was not evicted.
  What its CPU has in hand is the entry (`Hand`), no start is in the future of
  the run (`Order`), and the packets of the window are the latest in the history
  and as many as the counter says (`Tally`), except between the two stores that
  begin a window. `Reported` says the same of the reports: none is of a later
  window, and there is one for this window if the entry is over its threshold.
* `PortInv`: the first port of an entry, or of a copy in hand, was tried within
  its window, whatever other CPUs do. A port that is entered next differs from
  the first one of the copy, so a report has two ports. Where one queue reaches
  the entry, all its ports were tried in the window and no two are the same
  (`HasPorts`).
* `RateInv` and `RingInv`: a run has a tunnel's rate exactly when it has passed
  the tunnel's tracker, and a record carries the marks and the tunnel of its
  packet.

`MarkingHolds` needs in addition what the loop of `parse_gtpu` computes, for
every chain and every pair of limits. `OffsetsFacts` and `EndsFacts` show that
the recursive functions of the model exist, `OffsetsAreEnds` that the offset
after each turn is where the headers so far end if all of them fit, and
`WalkIsSound` that the loop accepts exactly the sound chains. These are
inductions over the turns. The library's induction rules have a predicate as a
parameter, which the provers cannot instantiate; `Induction` is stated for a set
of naturals instead and follows from the existence of a least element
(`LeastNat`, from the library's `WFMin`).

TLC checked each of these invariants (`MeshInv`, `PathInv`, `TunnelInv`,
`FloodInv`, `SilentInv`, `UpperInv`, `ExactInv`, `PortInv` and `RateInv` among
them) on the instance of its component's run.

Only model-checked:

* Liveness (`TimeLiftsEverything`, `ClaimIsEnforced`, `ScoringIsReported`,
  `AttributionSettles`, `EveryEventIsScored`, `AnsweredAlertIsScored`,
  `ObserverStreamsAgain`): fairness is out of the prover's reach.
* The violation properties are refuted, so there is nothing to prove.

Every safety property that a passing run checks is stated by a theorem.

## Not modelled

* Start-up wiring, configuration, metrics and generated deep copies have no
  state that a step of another actor could disturb.
* The AI engine's model is floating point, which TLC does not have. Its HTTP
  endpoint keeps no state. The training and load-test scripts have no part in
  the running system.
* Attaching the XDP program and opening the pins run once, before the
  goroutines start; `Restart` has their outcome (the maps are kept or empty).
  The byte layout of events, and the fields that are copied from one event type
  to the next, carry no control.
* One node and one replica of the operator. Other nodes read the same stored
  policies and write their own maps.
* Two policies that isolate the same workload: one's release takes the other's
  quarantine with it, and nothing in the repository says what should happen.
