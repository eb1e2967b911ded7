------------------------------ MODULE EventBus ------------------------------
(***************************************************************************)
(* The operator's connection to NATS (pkg/events/connector.go) and the two *)
(* subjects behind it (pkg/events/nats.go). What the sources of events get *)
(* is numbered as it arrives. A message of the events subject is a         *)
(* sequence of such numbers; of the threats subject only the copies of     *)
(* each score matter.                                                      *)
(***************************************************************************)
EXTENDS Naturals, Sequences

CONSTANTS
    MaxArrivals,  \* bound on packets, flows and alerts
    Loads         \* instances: the sources that are deployed, how much arrives,
                  \* and a bound on failed publishes, lost acks and streams, and
                  \* dead or late replicas

Sources == {"publisher", "observer", "bridge"}

ASSUME BusAssumption ==
    /\ MaxArrivals \in Nat
    /\ Loads \subseteq [sources : SUBSET Sources, arrivals : 0 .. MaxArrivals,
                        losses : Nat]

VARIABLES
    load,       \* the instance
    connected,  \* Connector.ready is closed
    stream,     \* messages of the events subject, in order
    threats,    \* scores on the threats subject, with their copies
    losses,     \* what is left of the bound
    arrivals,   \* packets, flows and alerts so far
    taken,      \* history: those that became events
    lost        \* history: events whose publish failed

busVars ==
    <<load, connected, stream, threats, losses, arrivals, taken, lost>>

BusInit ==
    /\ connected = FALSE /\ stream = <<>> /\ threats = <<>>
    /\ load \in Loads /\ losses = load.losses
    /\ arrivals = 0 /\ taken = {} /\ lost = {}

Events(msg) == {msg[i] : i \in DOMAIN msg}

Losing(n) == losses >= n /\ losses' = losses - n

Arrives == arrivals < load.arrivals /\ arrivals' = arrivals + 1

\* Run: a Connect succeeds. The client reconnects by itself from then on, and
\* a publish without a connection fails.
Connect ==
    /\ ~connected /\ connected' = TRUE
    /\ UNCHANGED <<load, stream, threats, losses, arrivals, taken, lost>>

\* JetStream stores one more copy of each score.
Copies(score) == IF score \in DOMAIN threats THEN threats[score] ELSE 0

Store(scores) ==
    threats' = [x \in DOMAIN threats \cup scores |->
                    Copies(x) + (IF x \in scores THEN 1 ELSE 0)]

\* A publish fails when JetStream's confirmation does not arrive, which it may
\* not although the message is stored.

\* PublishThreatScore of each score: some fail.
PublishScores(scores, failed) ==
    \E stored \in SUBSET failed : Store((scores \ failed) \cup stored)

\* PublishNormalizedEventBatch: an empty batch publishes nothing. No caller
\* tries again.
PublishBatch(msg, ok) ==
    /\ \/ msg # <<>> /\ stream' = Append(stream, msg)
       \/ (msg = <<>> \/ ~ok) /\ UNCHANGED stream
    /\ lost' = IF ok THEN lost ELSE lost \cup Events(msg)

\* PublishNormalizedEvent of what has just arrived.
PublishArrival(ok) ==
    /\ taken' = taken \cup {arrivals'}
    /\ PublishBatch(<<arrivals'>>, ok)
    /\ Losing(IF ok THEN 0 ELSE 1)
=============================================================================
