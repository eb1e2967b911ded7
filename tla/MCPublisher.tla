---------------------------- MODULE MCPublisher ----------------------------
(***************************************************************************)
(* Small instances of the publisher with both flood rules.                 *)
(***************************************************************************)
EXTENDS Publisher, TLC

CONSTANTS s1, s2, t1, t2, t3, NoSource

Flood(s, t) == [source |-> s, teid |-> t, gtpu |-> TRUE, rate |-> 2]

\* Six tunnels of two sources that flood, and a packet without a tunnel.
MCPacket ==
    {Flood(s, t) : s \in {s1, s2}, t \in {t1, t2, t3}}
        \cup {Flood(NoSource, NoTEID)}

MCLoads == {[sources |-> {"publisher"}, arrivals |-> 5, losses |-> 0]}

MCSymmetry == Permutations({s1, s2}) \cup Permutations({t1, t2, t3})
=============================================================================
