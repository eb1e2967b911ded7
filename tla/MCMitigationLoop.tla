-------------------------- MODULE MCMitigationLoop --------------------------
(***************************************************************************)
(* Small instances of the mitigation loop.                                 *)
(***************************************************************************)
EXTENDS MitigationLoop

CONSTANTS p1, p2, ip1, teid1, w1

Budget(user, scores, crashes, faults) ==
    [b \in Bound |-> CASE b = "user" -> user [] b = "scores" -> scores
                      [] b = "crashes" -> crashes [] b = "faults" -> faults]

EditBudget == {Budget(2, 2, 0, 0), Budget(2, 1, 0, 1)}
DisturbedBudget == {Budget(2, 1, 1, 0), Budget(2, 1, 0, 1)}
ScoringBudget == {Budget(2, 1, 0, 1)}
SwitchBudget == {Budget(2, 2, 0, 0)}
QuarantineBudget == {Budget(2, 1, 0, 0)}
ThrottleBudget == {Budget(1, 3, 0, 0)}

AutoSpec ==
    [target |-> w1, sensitivity |-> "medium", autoMitigate |-> TRUE,
     ebpfBlock |-> TRUE, ebpfBlockTunnel |-> FALSE, isolatePod |-> FALSE]

TunnelSpec == [AutoSpec EXCEPT !.ebpfBlockTunnel = TRUE]
IsolateSpec == [AutoSpec EXCEPT !.isolatePod = TRUE]
ShadowSpec == [AutoSpec EXCEPT !.autoMitigate = FALSE]

MCAuto == {AutoSpec}
MCTunnel == {TunnelSpec}
MCEdit == {[TunnelSpec EXCEPT !.isolatePod = TRUE], ShadowSpec}
MCIsolate == {IsolateSpec}

High == [workload |-> w1, source |-> ip1, teid |-> teid1, score |-> 90]
Low == [High EXCEPT !.score = 10]

NoTunnel == [High EXCEPT !.teid = NoTEID]

MCHigh == {High}
MCHighLow == {High, Low}
MCMixedScores == {High, Low, NoTunnel}
=============================================================================
