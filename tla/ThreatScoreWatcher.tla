------------------------- MODULE ThreatScoreWatcher -------------------------
(***************************************************************************)
(* The leader's score consumer (threat_score_watcher.go): one goroutine    *)
(* that warms PolicyIndex, then handles one ThreatScoreEvent at a time. A  *)
(* score is applied to each matching policy in turn: status first, then    *)
(* the kernel, then the mesh.                                              *)
(***************************************************************************)
EXTENDS Cluster

CONSTANTS
    Scores,          \* scores that can be delivered
    Burst, Interval  \* of the ReactorLimiter

ASSUME WatcherAssumption ==
    /\ Scores \subseteq Score /\ Scores # {}
    /\ Burst \in Nat /\ Interval \in Nat \ {0}

VARIABLE watcher  \* the goroutine's program counter and locals

\* todo: the policy versions still to apply the score to; ver and pol: the
\* copy being applied; acts: the actions still to take for it; bucket: the
\* limiter's token buckets.
WatcherState ==
    [pc : {"list", "warm", "ready", "put", "act"}, score : Score,
     todo : SUBSET (Policy \X Nat), pol : Policy, ver : Nat,
     acts : SUBSET (Target \cup Workload),
     bucket : [Policy -> [tokens : Nat, at : Nat]]]

WatcherStart ==
    [pc |-> "list", score |-> CHOOSE s \in Scores : TRUE, todo |-> {},
     pol |-> CHOOSE p \in Policy : TRUE, ver |-> 0, acts |-> {},
     bucket |-> [p \in Policy |-> [tokens |-> Burst * Interval, at |-> 0]]]

WatcherInit == watcher = WatcherStart

Limiter == INSTANCE ReactorLimiter WITH bucket <- watcher.bucket

-----------------------------------------------------------------------------
\* Mutant: warmIndex also indexes policies that are being deleted.
WarmListAll ==
    /\ watcher.pc = "list"
    /\ watcher' = [watcher EXCEPT
         !.pc = "warm",
         !.todo = {<<p, seen[p]>> : p \in {q \in Policy :
                     hist[q][seen[q]].live}}]
    /\ UNCHANGED clusterVars

\* warmIndex's List, from the informer cache; policies being deleted are
\* skipped.
WarmList ==
    /\ watcher.pc = "list"
    /\ watcher' = [watcher EXCEPT
         !.pc = "warm",
         !.todo = {<<p, seen[p]>> : p \in {q \in Policy :
                     /\ hist[q][seen[q]].live
                     /\ ~hist[q][seen[q]].deleting}}]
    /\ UNCHANGED clusterVars

\* One of warmIndex's Puts.
WarmPut ==
    /\ watcher.pc = "warm"
    /\ \E c \in watcher.todo :
        /\ index' = [index EXCEPT ![c[1]] = c[2]]
        /\ watcher' = [watcher EXCEPT !.todo = @ \ {c}]
    /\ UNCHANGED <<tracker, hist, seen, queue, delayed, kernel, mesh, engaged,
                   now, left>>

\* MarkStarted, then the durable subscription.
Subscribe ==
    /\ watcher.pc = "warm" /\ watcher.todo = {}
    /\ watcher' = [watcher EXCEPT !.pc = "ready"]
    /\ tracker' = [tracker EXCEPT !.graceOver = FALSE]
    /\ UNCHANGED <<hist, seen, queue, delayed, index, kernel, mesh, engaged,
                   now, left>>

-----------------------------------------------------------------------------
\* The subscription hands over one score at a time.
Deliverable == watcher.pc = "ready" /\ watcher.todo = {}

\* handle, up to MatchingPolicies. Every copy is taken now, so a policy
\* applied late in the loop is applied from an old copy. Deliveries repeat:
\* the bus is at-least-once.
Handle(s) ==
    /\ Deliverable /\ Spend("scores") /\ Observe
    /\ LET matching == {p \in Policy :
              index[p] # 0 /\ hist[p][index[p]].spec.target = s.workload}
       IN  matching # {}
           /\ watcher' = [watcher EXCEPT
                 !.score = s, !.todo = {<<p, index[p]>> : p \in matching}]
    /\ UNCHANGED <<hist, seen, queue, delayed, index, kernel, mesh, engaged,
                   now>>

\* The scored Pod is gone (acked) or could not be read (nacked), or no
\* policy matches it.
HandleNothing ==
    /\ Deliverable /\ Spend("scores") /\ Observe
    /\ UNCHANGED <<watcher, hist, seen, queue, delayed, index, kernel, mesh,
                   engaged, now>>

\* What applyPolicy makes of copy c.
Decision(c) == Decide(hist[c[1]][c[2]], watcher.score, engaged, now)

\* Mutant: the rate limit covers the decisions too.
NeverChanged(c) == FALSE

Changed(c) == StatusDecisionChanged(hist[c[1]][c[2]].status, Decision(c))

\* writeStatus: a changed decision is sent without asking the limiter, any
\* other status if there is a token, which it takes.
Sends(c) == Changed(c) \/ Limiter!Allow(c[1], now)
Tokens(c) ==
    IF Changed(c) THEN watcher.bucket ELSE Limiter!Taken(c[1], now)

\* The actions that follow a write of the decision, or a throttled one.
Follow(c) ==
    LET spec == hist[c[1]][c[2]].spec
    IN  {a \in Actions(spec, watcher.score) :
            Mitigates(spec, watcher.score, engaged)}

\* applyPolicy up to its status write, which the API server accepts.
ApplyWrites(c) ==
    /\ watcher.pc = "ready" /\ c \in watcher.todo
    /\ Sends(c) /\ Accepts(c[1], c[2])
    /\ hist' = Store(c[1], SetStatus(hist[c[1]][c[2]], Decision(c)))
    /\ watcher' = [watcher EXCEPT
         !.pc = "put", !.todo = @ \ {c}, !.pol = c[1],
         !.ver = Len(hist'[c[1]]), !.acts = Follow(c), !.bucket = Tokens(c)]
    /\ UNCHANGED <<tracker, seen, queue, delayed, index, kernel, mesh,
                   engaged, now, left>>

\* The next policy of handle's loop; after the last one the locals are gone.
NextPolicy(todo, bucket) ==
    [WatcherStart EXCEPT
        !.pc = "ready", !.todo = todo, !.bucket = bucket,
        !.score = IF todo = {} THEN @ ELSE watcher.score]

\* Mutant: the actions are taken although the status write failed.
ApplyFailsOpen(c) ==
    /\ watcher.pc = "ready" /\ c \in watcher.todo
    /\ Sends(c)
    /\ UpdateFails(c[1], c[2], SetStatus(hist[c[1]][c[2]], Decision(c)))
    /\ watcher' = [watcher EXCEPT !.pc = "act", !.todo = @ \ {c},
                                  !.acts = Follow(c), !.bucket = Tokens(c)]
    /\ UNCHANGED <<tracker, seen, queue, delayed, index, kernel, mesh,
                   engaged, now>>

\* The write fails: nothing is done for this policy, and the error is logged.
ApplyFails(c) ==
    /\ watcher.pc = "ready" /\ c \in watcher.todo
    /\ Sends(c)
    /\ UpdateFails(c[1], c[2], SetStatus(hist[c[1]][c[2]], Decision(c)))
    /\ watcher' = NextPolicy(watcher.todo \ {c}, Tokens(c))
    /\ UNCHANGED <<tracker, seen, queue, delayed, index, kernel, mesh,
                   engaged, now>>

\* ReactorLimiter refuses a write that changes no decision; the actions
\* follow all the same.
ApplyThrottled(c) ==
    /\ watcher.pc = "ready" /\ c \in watcher.todo
    /\ ~Sends(c)
    /\ watcher' = [watcher EXCEPT
         !.pc = "act", !.todo = @ \ {c}, !.pol = c[1], !.ver = c[2],
         !.acts = Follow(c)]
    /\ UNCHANGED clusterVars

\* updateStatus's Index.Put of the object the API server returned.
WatcherPut ==
    /\ watcher.pc = "put"
    /\ index' = [index EXCEPT ![watcher.pol] = watcher.ver]
    /\ watcher' = [watcher EXCEPT !.pc = "act"]
    /\ UNCHANGED <<tracker, hist, seen, queue, delayed, kernel, mesh, engaged,
                   now, left>>

\* The next action of the mitigation under way.
NextAction(a) ==
    /\ watcher.pc = "act" /\ a \in watcher.acts
    /\ \A b \in watcher.acts : Rank(a) <= Rank(b)

Block(a) ==
    /\ NextAction(a) /\ a \in Target
    /\ BlockDone(a)
    /\ watcher' = [watcher EXCEPT !.acts = @ \ {a}]
    /\ UNCHANGED <<tracker, hist, seen, queue, delayed, index, mesh, engaged,
                   now>>

Quarantine(a) ==
    /\ NextAction(a) /\ a \in Workload
    /\ mesh' = mesh \cup {a}
    /\ watcher' = [watcher EXCEPT !.acts = @ \ {a}]
    /\ UNCHANGED <<tracker, hist, seen, queue, delayed, index, kernel,
                   engaged, now, left>>

\* A failed action abandons the ones after it. A quarantine that returns an
\* error may be in place all the same.
ActionFails(a) ==
    /\ NextAction(a)
    /\ \/ a \in Target /\ BlockFails(a) /\ UNCHANGED mesh
       \/ /\ a \in Workload /\ Spend("faults") /\ UNCHANGED kernel
          /\ mesh' \in {mesh, mesh \cup {a}}
    /\ watcher' = [watcher EXCEPT !.acts = {}]
    /\ UNCHANGED <<tracker, hist, seen, queue, delayed, index, engaged, now>>

ApplyDone ==
    /\ watcher.pc = "act" /\ watcher.acts = {}
    /\ watcher' = NextPolicy(watcher.todo, watcher.bucket)
    /\ UNCHANGED clusterVars

\* The steps the goroutine takes by itself once it has a score.
WatcherStep ==
    \/ WarmList \/ WarmPut \/ Subscribe
    \/ \E c \in watcher.todo :
        ApplyWrites(c) \/ ApplyFails(c) \/ ApplyThrottled(c)
    \/ WatcherPut
    \/ \E a \in watcher.acts : Block(a) \/ Quarantine(a) \/ ActionFails(a)
    \/ ApplyDone

Deliver == HandleNothing \/ \E s \in Scores : Handle(s)

\* Dwells and buckets read the clock, so it runs while a dwell is running or
\* a bucket is filling.
Tick ==
    /\ \E p \in Policy :
        LET last == Latest(p).status.last
        IN  \/ last # Never /\ now < last + Dwell
            \/ Limiter!Available(p, now) < Burst * Interval
    /\ now' = now + 1
    /\ UNCHANGED <<hist, seen, queue, delayed, index, kernel, mesh, tracker,
                   engaged, left>>
=============================================================================
