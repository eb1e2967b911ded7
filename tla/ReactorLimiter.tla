--------------------------- MODULE ReactorLimiter ---------------------------
(***************************************************************************)
(* ReactorLimiter (reactor_limiter.go): a token bucket per policy for the  *)
(* status writes that carry no decision. A token takes Interval ticks to   *)
(* come, and a bucket counts in ticks. Deleting a policy leaves its bucket *)
(* as it is: nothing calls Forget.                                         *)
(***************************************************************************)
EXTENDS Integers

CONSTANTS
    Policy,
    Burst,     \* tokens a bucket holds; 0: there is no limiter
    Interval   \* ticks to a token

ASSUME LimiterAssumption == Burst \in Nat /\ Interval \in Nat \ {0}

VARIABLE bucket  \* per policy: its tokens when they were last taken, and when

\* NewLimiter makes a full bucket, so that making it at the first use is the
\* same as having it from the start.
LimiterInit == bucket = [p \in Policy |-> [tokens |-> Burst * Interval, at |-> 0]]

\* Mutant: the rate is rounded down to whole tokens a tick, to nothing.
AvailableNoRefill(p, t) == bucket[p].tokens

\* What a bucket holds at a time.
Available(p, t) ==
    LET b == bucket[p]
        sum == b.tokens + (t - b.at)
    IN  IF sum < Burst * Interval THEN sum ELSE Burst * Interval

Allow(p, t) == Burst = 0 \/ Available(p, t) >= Interval

\* The bucket after a token was taken. A refusal changes nothing.
Taken(p, t) ==
    IF Burst = 0 THEN bucket
    ELSE [bucket EXCEPT ![p] = [tokens |-> Available(p, t) - Interval, at |-> t]]
=============================================================================
