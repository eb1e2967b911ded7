--------------------------- MODULE HubbleObserver ---------------------------
(***************************************************************************)
(* hubble.Observer: the source of events where Cilium has the network      *)
(* interfaces. It reads one flow stream after another and publishes an     *)
(* event for each flow that is signaling.                                  *)
(***************************************************************************)
EXTENDS EventBus

CONSTANTS
    Flow,       \* responses of the stream: kind, and for a flow its UDP port
    MaxBackoff  \* 30 s, in units of the first backoff

ASSUME ObserverAssumption == MaxBackoff \in Nat \ {0}

VARIABLES
    phase,   \* "calling" GetFlows, "streaming", "waiting" or "stopped"
    backoff

observerVars == <<phase, backoff>>

ObserverInit == phase = "calling" /\ backoff = 1

\* FromFlow: the flows that become events. No other response does.
FromFlow(f) == f.kind = "udp" /\ f.port \in {"gtpu", "sip"}

-----------------------------------------------------------------------------
GetFlows ==
    /\ phase = "calling"
    /\ \/ phase' = "streaming" /\ UNCHANGED losses
       \/ phase' = "waiting" /\ Losing(1)
    /\ UNCHANGED <<backoff, load, connected, stream, threats, arrivals, taken,
                   lost>>

\* A flow is dropped while NATS is not connected, and when its publish fails.
Recv(f) ==
    /\ phase = "streaming" /\ Arrives
    /\ \/ /\ FromFlow(f) /\ connected
          /\ \E ok \in BOOLEAN : PublishArrival(ok)
       \/ /\ ~FromFlow(f) \/ ~connected
          /\ UNCHANGED <<stream, losses, taken, lost>>
    /\ UNCHANGED <<observerVars, load, connected, threats>>

\* The stream ends, with or without an error.
StreamEnds ==
    /\ phase = "streaming" /\ Losing(1)
    /\ phase' = "waiting"
    /\ UNCHANGED <<backoff, load, connected, stream, threats, arrivals, taken,
                   lost>>

\* Mutant: only the first failure is retried.
RetryFirst ==
    /\ phase = "waiting" /\ backoff = 1
    /\ phase' = "calling" /\ backoff' = 2
    /\ UNCHANGED busVars

\* The backoff is for the next failure. Nothing makes it shorter again.
Retry ==
    /\ phase = "waiting" /\ phase' = "calling"
    /\ backoff' = IF 2 * backoff < MaxBackoff THEN 2 * backoff ELSE MaxBackoff
    /\ UNCHANGED busVars

ObserverStops ==
    /\ phase # "stopped" /\ phase' = "stopped"
    /\ UNCHANGED <<backoff, busVars>>

ObserverConnect == Connect /\ UNCHANGED observerVars

ObserverNext ==
    \/ GetFlows \/ StreamEnds \/ Retry \/ ObserverStops \/ ObserverConnect
    \/ \E f \in Flow : Recv(f)
=============================================================================
