----------------------------- MODULE EventPath -----------------------------
(***************************************************************************)
(* From a packet, a flow or an alert to its score: the three sources of    *)
(* events, the bus and the AI engine's replicas.                           *)
(***************************************************************************)
EXTENDS Publisher, HubbleObserver, FalcoBridge, AIEngine

inputVars == <<detectVars, publisherVars, observerVars, answered>>
pathVars == <<busVars, inputVars, engineVars>>

PathInit == IngestInit /\ ObserverInit /\ BridgeInit /\ EngineInit

PublisherStep ==
    /\ "publisher" \in load.sources /\ PublisherNext
    /\ UNCHANGED <<observerVars, answered, engineVars>>

ObserverStep ==
    /\ "observer" \in load.sources /\ ObserverNext
    /\ UNCHANGED <<detectVars, publisherVars, answered, engineVars>>

BridgeStep ==
    /\ "bridge" \in load.sources /\ BridgeNext
    /\ UNCHANGED <<detectVars, publisherVars, observerVars, engineVars>>

EngineStep ==
    EngineNext /\ UNCHANGED <<inputVars, load, connected, arrivals, taken, lost>>

PathNext == PublisherStep \/ ObserverStep \/ BridgeStep \/ EngineStep

\* The ticker fires, JetStream delivers, replicas work on and the observer's
\* calls return. Nothing is assumed of packets, flows, alerts, failures and
\* the end of the operator.
PathSpec ==
    /\ PathInit /\ [][PathNext]_pathVars
    /\ WF_pathVars(TickerFlush /\ UNCHANGED <<observerVars, answered, engineVars>>)
    /\ WF_pathVars(/\ "observer" \in load.sources /\ (GetFlows \/ Retry)
                   /\ UNCHANGED <<detectVars, publisherVars, answered, engineVars>>)
    /\ WF_pathVars(EngineStep)

-----------------------------------------------------------------------------
\* Every event that a source took in is scored in the end, or was lost when
\* its message could not be published: partial batches, late, dead and
\* failing replicas cost no event while there are fewer failures than
\* deliveries.
EveryEventIsScored ==
    \A e \in 1 .. MaxArrivals : e \in taken ~> Scored(e) \/ e \in lost

\* Falco is told OK only for an alert that is scored in the end.
AnsweredAlertIsScored ==
    \A e \in 1 .. MaxArrivals : e \in answered ~> Scored(e)

\* "a single dropped connection to Hubble Relay shouldn't crash-loop this
\* component": the observer streams again after each failure, until it is
\* stopped.
ObserverStreamsAgain ==
    "observer" \in load.sources => []<>(phase \in {"streaming", "stopped"})
=============================================================================
