---------------------------- MODULE Enforcement ----------------------------
(***************************************************************************)
(* What the mitigation loop promises, without its goroutines, caches and   *)
(* write conflicts. A policy claims the keys it wants dropped. Claims grow *)
(* with a mitigation, which is dated; they are given up all at once, after *)
(* a dwell without another; and from its deletion on a policy's claim      *)
(* stays as it is until the policy is gone. The kernel drops nothing that  *)
(* no policy ever claimed.                                                 *)
(***************************************************************************)
EXTENDS Integers

CONSTANTS
    Policy,
    Target,  \* keys the kernel can drop
    Dwell,
    Never    \* the date of no mitigation

VARIABLES
    clock,
    claim,     \* per policy: its stage, its keys and the date of its last
               \* mitigation
    recorded,  \* keys ever claimed
    drops      \* keys the kernel drops

promised == <<clock, claim, recorded, drops>>

NoClaim == [stage |-> "none", keys |-> {}, since |-> Never]

\* A policy that is neither gone nor being deleted is watching or mitigating.
Live == {"watching", "mitigating"}

EnforcementInit ==
    /\ clock = 0 /\ claim = [p \in Policy |-> NoClaim]
    /\ recorded = {} /\ drops = {}

Becomes(p, c) ==
    /\ claim' = [claim EXCEPT ![p] = c]
    /\ recorded' = recorded \cup c.keys
    /\ UNCHANGED <<clock, drops>>

-----------------------------------------------------------------------------
Announce(p) ==
    /\ claim[p].stage = "none"
    /\ Becomes(p, [NoClaim EXCEPT !.stage = "watching"])

Escalate(p) ==
    /\ claim[p].stage \in Live
    /\ \E more \in SUBSET Target :
        Becomes(p, [stage |-> "mitigating", keys |-> claim[p].keys \cup more,
                    since |-> clock])

\* An alert may take the place of a mitigation; the claim stays.
StandDown(p) ==
    /\ claim[p].stage = "mitigating"
    /\ Becomes(p, [claim[p] EXCEPT !.stage = "watching"])

Calm(p) ==
    /\ claim[p].stage = "mitigating"
    /\ claim[p].since # Never /\ clock - claim[p].since >= Dwell
    /\ Becomes(p, [stage |-> "watching", keys |-> {}, since |-> claim[p].since])

Leave(p) ==
    /\ claim[p].stage \in Live
    /\ Becomes(p, [claim[p] EXCEPT !.stage = "leaving"])

Gone(p) == Becomes(p, NoClaim)

\* The kernel follows, at its own pace and not always the latest claims.
Enforce ==
    /\ drops' \in SUBSET recorded
    /\ UNCHANGED <<clock, claim, recorded>>

Pass == clock' = clock + 1 /\ UNCHANGED <<claim, recorded, drops>>

EnforcementNext ==
    \/ \E p \in Policy : \/ Announce(p) \/ Escalate(p) \/ StandDown(p)
                         \/ Calm(p) \/ Leave(p) \/ Gone(p)
    \/ Enforce \/ Pass

EnforcementSpec == EnforcementInit /\ [][EnforcementNext]_promised
=============================================================================
