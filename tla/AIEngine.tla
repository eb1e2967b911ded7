------------------------------ MODULE AIEngine ------------------------------
(***************************************************************************)
(* The AI engine's NATS worker (run_nats_worker in server.py): replicas    *)
(* that share one durable consumer of the events subject. A replica works  *)
(* on one message at a time and publishes a score per event of it.         *)
(***************************************************************************)
EXTENDS EventBus

CONSTANTS
    Replica,
    MaxDeliver   \* _MAX_EVENT_DELIVERIES

ASSUME EngineAssumption == MaxDeliver \in Nat \ {0}

VARIABLES
    replica,    \* the message each replica works on, its place in it, and
                \* which delivery of it this is (history)
    answer,     \* per message: "none" (to be delivered), "pending" or "acked"
    deliveries  \* per message: how often it was delivered

engineVars == <<replica, answer, deliveries>>

\* A message holds an arrival, or more.
MessageId == 1 .. MaxArrivals

Free == [msg |-> 0, pos |-> 0, delivery |-> 0]

EngineInit ==
    /\ replica = [r \in Replica |-> Free]
    /\ answer = [m \in MessageId |-> "none"]
    /\ deliveries = [m \in MessageId |-> 0]

\* The delivery that a score comes from is history.
AIScore(e, d) == [model |-> "autoencoder-v1", event |-> e, delivery |-> d]

-----------------------------------------------------------------------------
\* JetStream hands a message to a free replica, MaxDeliver times at most.
Deliver(r, m) ==
    /\ replica[r] = Free
    /\ m \in DOMAIN stream /\ answer[m] = "none" /\ deliveries[m] < MaxDeliver
    /\ replica' = [replica EXCEPT ![r] =
                    [msg |-> m, pos |-> 1, delivery |-> deliveries[m] + 1]]
    /\ answer' = [answer EXCEPT ![m] = "pending"]
    /\ deliveries' = [deliveries EXCEPT ![m] = @ + 1]
    /\ UNCHANGED <<stream, threats, losses>>

\* The answer to a delivery did not come in time: the replica is gone, its
\* ack was lost, or it is still at work.
Expire(m) ==
    /\ answer[m] = "pending"
    /\ \/ (\A r \in Replica : replica[r].msg # m) /\ UNCHANGED losses
       \/ (\E r \in Replica : replica[r].msg = m) /\ Losing(1)
    /\ answer' = [answer EXCEPT ![m] = "none"]
    /\ UNCHANGED <<stream, threats, replica, deliveries>>

Done(r) == replica' = [replica EXCEPT ![r] = Free]

Current(r) == stream[replica[r].msg]

ScoreAt(r, i) == AIScore(Current(r)[i], replica[r].delivery)

\* Mutant: the scores collected so far are published again with each new one.
ScoreEventAgain(r) ==
    /\ replica[r] # Free /\ replica[r].pos <= Len(Current(r))
    /\ Store({ScoreAt(r, i) : i \in 1 .. replica[r].pos})
    /\ replica' = [replica EXCEPT ![r].pos = @ + 1]
    /\ UNCHANGED <<stream, losses, answer, deliveries>>

\* The handler's loop: an event is scored and its score published.
ScoreEvent(r) ==
    /\ replica[r] # Free /\ replica[r].pos <= Len(Current(r))
    /\ Store({ScoreAt(r, replica[r].pos)})
    /\ replica' = [replica EXCEPT ![r].pos = @ + 1]
    /\ UNCHANGED <<stream, losses, answer, deliveries>>

\* Mutant: a failed publish is logged and the message acked.
ScoreFailsAcked(r) ==
    /\ replica[r] # Free /\ replica[r].pos <= Len(Current(r)) /\ Losing(1)
    /\ answer' = [answer EXCEPT ![replica[r].msg] = "acked"]
    /\ Done(r)
    /\ UNCHANGED <<stream, threats, deliveries>>

\* The publish fails, although the score may have been stored, and the whole
\* message is nacked. A nack does not take back another replica's ack.
ScoreFails(r) ==
    /\ replica[r] # Free /\ replica[r].pos <= Len(Current(r)) /\ Losing(1)
    /\ UNCHANGED threats \/ Store({ScoreAt(r, replica[r].pos)})
    /\ answer' = [answer EXCEPT ![replica[r].msg] =
                    IF @ = "acked" THEN @ ELSE "none"]
    /\ Done(r)
    /\ UNCHANGED <<stream, deliveries>>

\* One ack for the whole message; it is not confirmed and may get lost.
Ack(r) ==
    /\ replica[r] # Free /\ replica[r].pos > Len(Current(r))
    /\ \/ /\ answer' = [answer EXCEPT ![replica[r].msg] = "acked"]
          /\ UNCHANGED losses
       \/ Losing(1) /\ UNCHANGED answer
    /\ Done(r)
    /\ UNCHANGED <<stream, threats, deliveries>>

ReplicaDies(r) ==
    /\ replica[r] # Free /\ Losing(1) /\ Done(r)
    /\ UNCHANGED <<stream, threats, answer, deliveries>>

EngineNext ==
    \/ \E r \in Replica : ScoreEvent(r) \/ ScoreFails(r) \/ Ack(r)
                            \/ ReplicaDies(r)
    \/ \E m \in MessageId :
        Expire(m) \/ \E r \in Replica : Deliver(r, m)

-----------------------------------------------------------------------------
Scored(e) == \E d \in 1 .. MaxDeliver : Copies(AIScore(e, d)) > 0

\* A message is acked only when every event of it has been scored, by the
\* replica that acks or by an earlier delivery: one ack for a batch loses no
\* event, whatever failed half-way through the batch.
AckedIsScored ==
    \A m \in DOMAIN stream :
        answer[m] = "acked" => \A e \in Events(stream[m]) : Scored(e)

\* An event is scored at most once per delivery of its message, so at most
\* MaxDeliver times, also when a late replica and its successor work on the
\* same message, and when a score is stored although its publish failed.
OneScorePerDelivery ==
    \A m \in DOMAIN stream : \A e \in Events(stream[m]), d \in 1 .. MaxDeliver :
        Copies(AIScore(e, d)) <= IF d <= deliveries[m] THEN 1 ELSE 0
=============================================================================
