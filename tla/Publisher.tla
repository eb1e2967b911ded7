----------------------------- MODULE Publisher -----------------------------
(***************************************************************************)
(* ingestion.Publisher: one goroutine that takes packets from the kernel's *)
(* ring buffer, runs both flood rules on each and collects them in batches *)
(* for the AI engine. Which Pod an address belongs to is PodIPIndex.       *)
(***************************************************************************)
EXTENDS Detect, EventBus

CONSTANTS
    Packet,      \* what the kernel reports: source, teid, gtpu, rate
    BatchSize    \* 1: every event is a message of its own

ASSUME PublisherAssumption ==
    /\ BatchSize \in Nat \ {0}
    /\ \A evt \in Packet : evt.teid # NoTEID => evt.source \in Source /\ evt.teid \in TEID

VARIABLES
    batch,    \* events not yet published, by number
    stopped

publisherVars == <<batch, stopped>>

PublisherInit == batch = <<>> /\ stopped = FALSE

\* Mutant: the buffer keeps what was published.
FlushKeeps(b, ok) ==
    /\ PublishBatch(b, ok)
    /\ batch' = b

\* The buffer is emptied whether or not the publish went well.
Flush(b, ok) ==
    /\ PublishBatch(b, ok)
    /\ batch' = <<>>

\* The scores of the rules that fire. A source's score names no tunnel.
Scores(evt) ==
    (IF TunnelDue(evt)
     THEN {[model |-> "tunnel", source |-> evt.source, teid |-> evt.teid]}
     ELSE {})
    \cup
    (IF SourceDue(evt)
     THEN {[model |-> "source", source |-> evt.source, teid |-> NoTEID]}
     ELSE {})

\* A packet is dropped while NATS is not connected. After that the rules see
\* it first, and its event goes into the batch, which is published when full.
Drop ==
    /\ ~stopped /\ ~connected /\ Arrives
    /\ UNCHANGED <<detectVars, load, connected, stream, threats, losses, taken,
                   lost, publisherVars>>

Receive(evt) ==
    /\ ~stopped /\ connected /\ Arrives
    /\ EvaluateTunnel(evt) /\ EvaluateSource(evt)
    /\ taken' = taken \cup {arrivals'}
    /\ LET b == Append(batch, arrivals')
       IN \E failed \in SUBSET Scores(evt), ok \in BOOLEAN :
            /\ PublishScores(Scores(evt), failed)
            /\ Losing(Cardinality(failed) + (IF ok THEN 0 ELSE 1))
            /\ \/ Len(b) >= BatchSize /\ Flush(b, ok)
               \/ /\ Len(b) < BatchSize /\ ok
                  /\ batch' = b /\ UNCHANGED <<stream, lost>>
    /\ UNCHANGED <<now, load, connected, stopped>>

\* The ticker flushes what there is, and so does the end of the goroutine.
FlushRest(ok) ==
    /\ ~stopped /\ Flush(batch, ok)
    /\ Losing(IF ok THEN 0 ELSE 1)
    /\ UNCHANGED <<detectVars, load, connected, threats, arrivals, taken>>

\* Mutant: the ticker publishes a batch only when it is full.
TickerFlushFull ==
    /\ Len(batch) >= BatchSize
    /\ \E ok \in BOOLEAN : FlushRest(ok)
    /\ UNCHANGED stopped

TickerFlush ==
    /\ batch # <<>>
    /\ \E ok \in BOOLEAN : FlushRest(ok)
    /\ UNCHANGED stopped

Stop ==
    /\ \E ok \in BOOLEAN : (batch = <<>> => ok) /\ FlushRest(ok)
    /\ stopped' = TRUE

PublisherConnect == Connect /\ UNCHANGED <<detectVars, publisherVars>>

PublisherTick == DetectTick /\ UNCHANGED <<busVars, publisherVars>>

PublisherNext ==
    \/ Drop \/ TickerFlush \/ Stop \/ PublisherConnect \/ PublisherTick
    \/ \E evt \in Packet : Receive(evt)

IngestInit == DetectInit /\ BusInit /\ PublisherInit

PublisherSpec ==
    /\ IngestInit
    /\ [][PublisherNext]_<<detectVars, busVars, publisherVars>>

-----------------------------------------------------------------------------
Published == UNION {Events(stream[m]) : m \in DOMAIN stream}

\* Every event of every source waits in the publisher's batch, or is in a
\* message, or was given up with a failed publish. Batching repeats and forgets
\* none: what waits has not been published, no event is published twice, and
\* no message is empty or exceeds BatchSize.
EveryEventIsInOnePlace ==
    /\ Events(batch) \cup Published \cup lost = taken
    /\ Events(batch) \cap (Published \cup lost) = {}
    /\ \A m, n \in DOMAIN stream : \A i \in DOMAIN stream[m], j \in DOMAIN stream[n] :
        stream[m][i] = stream[n][j] => m = n /\ i = j
    /\ \A m \in DOMAIN stream : Len(stream[m]) \in 1 .. BatchSize
=============================================================================
