---------------------------- MODULE FalcoBridge ----------------------------
(***************************************************************************)
(* falco.Bridge: an HTTP server that publishes an event for each alert     *)
(* Falco posts. Requests are independent: each publishes once and answers. *)
(* The bridge is a process of its own, with a connection of its own that   *)
(* it has made before it serves.                                           *)
(***************************************************************************)
EXTENDS EventBus

VARIABLE answered  \* history: alerts answered with StatusOK

BridgeInit == answered = {}

\* An alert without the shared secret, or that does not decode, is refused.
Refuse ==
    /\ Arrives
    /\ UNCHANGED <<answered, load, connected, stream, threats, losses, taken,
                   lost>>

\* Mutant: the failure of a publish is logged and not answered.
AnswerAll(ok) == answered' = answered \cup {arrivals'}

\* StatusOK, or StatusInternalServerError.
Answer(ok) ==
    answered' = IF ok THEN answered \cup {arrivals'} ELSE answered

handle ==
    /\ Arrives
    /\ \E ok \in BOOLEAN : PublishArrival(ok) /\ Answer(ok)
    /\ UNCHANGED <<load, connected, threats>>

BridgeNext == Refuse \/ handle
=============================================================================
