---------------------------- MODULE MCEventPath ----------------------------
(***************************************************************************)
(* Small instances of the event path, with the flood rules turned off. Two *)
(* packets make a batch and a third a partial one; an alert or a flow is a *)
(* message of its own.                                                     *)
(***************************************************************************)
EXTENDS EventPath

CONSTANTS s1, t1, r1, r2

MCPacket == {[source |-> s1, teid |-> t1, gtpu |-> TRUE, rate |-> 1]}

\* A signaling flow, and a message that carries no flow.
MCFlow == {[kind |-> "udp", port |-> "gtpu"], [kind |-> "lost", port |-> "none"]}

MCLoads ==
    {[sources |-> {"publisher"}, arrivals |-> 3, losses |-> 2],
     [sources |-> {"observer", "bridge"}, arrivals |-> 2, losses |-> 2],
     [sources |-> {"publisher", "bridge"}, arrivals |-> 3, losses |-> 1]}
=============================================================================
