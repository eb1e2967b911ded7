--------------------------- MODULE EventPathProofs --------------------------
(***************************************************************************)
(* The AI engine's worker acks no event unscored, and scores none twice    *)
(* for one delivery; and no event is lost, repeated or left unscored       *)
(* between the sources, the events subject and the engine. For every batch *)
(* size, any number of arrivals, replicas, messages and deliveries, and    *)
(* wherever a publish, an ack or a replica fails.                          *)
(***************************************************************************)
EXTENDS EventPath, TLAPS

(* The SMT solver may take its time on a leaf that names no prover. *)
USE SMTT(60)

-----------------------------------------------------------------------------
(* The inductive invariant. *)

OnStream(e) ==
    \E m \in DOMAIN stream : \E i \in DOMAIN stream[m] : e = stream[m][i]

\* What the engine needs of the sources: events are numbered, there are no more
\* messages than arrivals, and an event has one place.
StreamOK ==
    /\ stream \in Seq(Seq(Nat)) /\ DOMAIN stream \subseteq MessageId
    /\ \A m \in DOMAIN stream : \A i \in DOMAIN stream[m] :
        stream[m][i] \in 1 .. MaxArrivals
    /\ \A m, n \in DOMAIN stream : \A i \in DOMAIN stream[m], j \in DOMAIN stream[n] :
        stream[m][i] = stream[n][j] => m = n /\ i = j

\* A replica has scored what it has passed, and its delivery nothing else.
Passed(r) ==
    /\ replica[r].msg \in DOMAIN stream
    /\ replica[r].pos \in 1 .. Len(Current(r)) + 1
    /\ replica[r].delivery \in 1 .. deliveries[replica[r].msg]
    /\ \A i \in DOMAIN Current(r) : IF i < replica[r].pos
                                   THEN Scored(Current(r)[i])
                                   ELSE Copies(ScoreAt(r, i)) = 0

\* A delivery is one replica's.
OwnDelivery(q, r) ==
    q # r => replica[q].msg # replica[r].msg \/ replica[q].delivery # replica[r].delivery

AllScored(m) == \A i \in DOMAIN stream[m] : Scored(stream[m][i])

PerDelivery(m, i, d) ==
    Copies(AIScore(stream[m][i], d)) <= IF d <= deliveries[m] THEN 1 ELSE 0

CopiesOK == \A x \in DOMAIN threats : threats[x] \in Nat

ReplicasOK ==
    /\ replica \in [Replica -> [msg : Nat, pos : Nat, delivery : Nat]]
    /\ deliveries \in [MessageId -> 0 .. MaxDeliver]
    /\ \A r \in Replica : replica[r] # Free => Passed(r)
    /\ \A q, r \in Replica : replica[q] # Free /\ replica[r] # Free => OwnDelivery(q, r)

ScoresOK ==
    /\ CopiesOK
    /\ \A e \in 1 .. MaxArrivals, d \in 1 .. MaxDeliver :
        Copies(AIScore(e, d)) > 0 => OnStream(e)
    /\ \A m \in DOMAIN stream : \A i \in DOMAIN stream[m], d \in 1 .. MaxDeliver :
        PerDelivery(m, i, d)

AnswersOK ==
    /\ answer \in [MessageId -> {"none", "pending", "acked"}]
    /\ \A m \in MessageId : answer[m] = "acked" => m \in DOMAIN stream /\ AllScored(m)

EngineInv == ReplicasOK /\ ScoresOK /\ AnswersOK

WorkInv == StreamOK /\ EngineInv

-----------------------------------------------------------------------------
(* Scores on the threats subject. *)

LEMMA CopiesType ==
    ASSUME CopiesOK, NEW x PROVE Copies(x) \in Nat
BY DEF CopiesOK, Copies

\* Publishing scores adds one copy of each.
LEMMA StoreAdds ==
    ASSUME CopiesOK, NEW S, Store(S)
    PROVE  /\ CopiesOK'
           /\ \A x : Copies(x)' = Copies(x) + (IF x \in S THEN 1 ELSE 0)
<1>1. ASSUME NEW x \in DOMAIN threats' PROVE threats'[x] \in Nat
    BY <1>1, CopiesType DEF Store
<1>2. ASSUME NEW x PROVE Copies(x)' = Copies(x) + (IF x \in S THEN 1 ELSE 0)
    <2>1. Copies(x) \in Nat
        BY CopiesType, Zenon
    <2>2. CASE x \in DOMAIN threats'
        BY <2>2, Zenon DEF Store, Copies
    <2>3. CASE x \notin DOMAIN threats'
        <3>1. x \notin DOMAIN threats /\ x \notin S
            BY <2>3 DEF Store
        <3> QED BY <2>3, <3>1 DEF Copies
    <2> QED BY <2>2, <2>3
<1> QED BY <1>1, <1>2 DEF CopiesOK

\* Scores of the AI engine tell events and deliveries apart.
LEMMA ScoresDiffer ==
    ASSUME NEW e, NEW d, NEW f, NEW c, AIScore(e, d) = AIScore(f, c)
    PROVE  e = f /\ d = c
<1>1. /\ AIScore(e, d).event = e /\ AIScore(f, c).event = f
      /\ AIScore(e, d).delivery = d /\ AIScore(f, c).delivery = c
    BY DEF AIScore
<1> QED BY <1>1

\* A message is a sequence of numbers.
LEMMA Message ==
    ASSUME StreamOK, NEW m \in DOMAIN stream
    PROVE  m \in MessageId /\ stream[m] \in Seq(Nat)
BY DEF StreamOK

\* An event has one place on the stream.
LEMMA OnePlace ==
    ASSUME StreamOK,
           NEW m \in DOMAIN stream, NEW i \in DOMAIN stream[m],
           NEW n \in DOMAIN stream, NEW j \in DOMAIN stream[n],
           stream[m][i] = stream[n][j]
    PROVE  m = n /\ i = j
BY DEF StreamOK

\* The position after one of a sequence.
LEMMA NextPosition ==
    ASSUME NEW S, NEW s \in Seq(S), NEW p \in DOMAIN s
    PROVE  p + 1 \in 1 .. Len(s) + 1
OBVIOUS

-----------------------------------------------------------------------------
(* The sources, seen from the engine. *)

\* What a source does to the bus: it may append a message, and may add scores
\* of the flood rules.
Extends ==
    /\ stream' = stream \/ \E msg \in Seq(Nat) : stream' = Append(stream, msg)
    /\ \/ threats' = threats
       \/ \E S : Store(S) /\ \A e, d : AIScore(e, d) \notin S
    /\ UNCHANGED engineVars

\* The sources leave the engine's part of the invariant alone: their scores are
\* not the engine's, and a new message has events that nobody has scored.
LEMMA SourceKeepsEngine ==
    ASSUME WorkInv, StreamOK', Extends
    PROVE  EngineInv'
<1> USE DEF WorkInv, EngineInv
<1>1. CopiesOK' /\ \A e, d : Copies(AIScore(e, d))' = Copies(AIScore(e, d))
    <2>1. CASE threats' = threats
        BY <2>1 DEF ScoresOK, CopiesOK, Copies
    <2>2. ASSUME NEW S, Store(S), \A e, d : AIScore(e, d) \notin S
          PROVE  <1>1
        <3>1. CopiesOK' /\ \A e, d : Copies(AIScore(e, d))' = Copies(AIScore(e, d)) + 0
            BY <2>2, StoreAdds DEF ScoresOK
        <3> QED BY <3>1, CopiesType DEF ScoresOK
    <2> QED BY <2>1, <2>2 DEF Extends
<1>2. \A e : Scored(e)' = Scored(e)
    BY <1>1 DEF Scored
<1>3. replica' = replica /\ answer' = answer /\ deliveries' = deliveries
    BY DEF Extends, engineVars
<1>4. /\ DOMAIN stream \subseteq DOMAIN stream'
      /\ \A m \in DOMAIN stream : stream'[m] = stream[m]
      /\ \A e : OnStream(e) => OnStream(e)'
    <2>1. CASE stream' = stream
        BY <2>1 DEF OnStream
    <2>2. ASSUME NEW msg \in Seq(Nat), stream' = Append(stream, msg) PROVE <1>4
        <3>1. /\ DOMAIN stream \subseteq DOMAIN stream'
              /\ \A m \in DOMAIN stream : stream'[m] = stream[m]
            BY <2>2 DEF StreamOK
        <3> QED BY <3>1, Zenon DEF OnStream
    <2> QED BY <2>1, <2>2 DEF Extends
<1>5. ASSUME NEW r \in Replica, replica'[r] # Free PROVE Passed(r)'
    <2>1. Passed(r) /\ Current(r)' = Current(r)
        BY <1>3, <1>4, <1>5 DEF ReplicasOK, Passed, Current
    <2>2. \A i : Copies(ScoreAt(r, i))' = Copies(ScoreAt(r, i))
        BY <1>1, <1>3, <2>1 DEF ScoreAt
    <2> QED BY <1>2, <1>3, <1>4, <2>1, <2>2, Zenon DEF Passed
<1>6. ASSUME NEW m \in MessageId, answer'[m] = "acked"
      PROVE  m \in DOMAIN stream' /\ AllScored(m)'
    <2>1. m \in DOMAIN stream /\ AllScored(m)
        BY <1>3, <1>6 DEF AnswersOK
    <2> QED BY <1>2, <1>4, <2>1, Zenon DEF AllScored
<1>7. ASSUME NEW m \in DOMAIN stream', NEW i \in DOMAIN stream'[m],
             NEW d \in 1 .. MaxDeliver
      PROVE  PerDelivery(m, i, d)'
    <2>1. CASE m \in DOMAIN stream
        <3>1. PerDelivery(m, i, d) /\ stream'[m] = stream[m]
            BY <1>4, <1>7, <2>1 DEF ScoresOK
        <3> QED BY <1>1, <1>3, <3>1, Zenon DEF PerDelivery
    <2>2. CASE m \notin DOMAIN stream
        <3>1. ~OnStream(stream'[m][i])
            <4> SUFFICES ASSUME NEW n \in DOMAIN stream, NEW j \in DOMAIN stream[n],
                                stream'[m][i] = stream[n][j]
                         PROVE  FALSE
                BY Zenon DEF OnStream
            <4>1. m # n /\ n \in DOMAIN stream' /\ stream'[n] = stream[n]
                BY <1>4, <2>2, Zenon
            <4> QED BY <4>1 DEF StreamOK
        <3>2. stream'[m][i] \in 1 .. MaxArrivals /\ m \in MessageId
            BY Zenon DEF StreamOK, MessageId
        <3>3. Copies(AIScore(stream'[m][i], d)) = 0
            BY <3>1, <3>2, CopiesType DEF ScoresOK
        <3>4. Copies(AIScore(stream[m][i], d))' = 0
            BY <1>1, <3>3, Zenon
        <3>5. deliveries'[m] \in Nat
            BY <1>3, <3>2, EngineAssumption DEF ReplicasOK
        <3> QED BY <3>4, <3>5, EngineAssumption DEF PerDelivery
    <2> QED BY <2>1, <2>2
<1>8. ReplicasOK'
    BY <1>3, <1>5, Zenon DEF ReplicasOK, OwnDelivery
<1>9. ScoresOK'
    BY <1>1, <1>4, <1>7, Zenon DEF ScoresOK
<1>10. AnswersOK'
    BY <1>3, <1>6, Zenon DEF AnswersOK
<1> QED BY <1>8, <1>9, <1>10

-----------------------------------------------------------------------------
(* The engine. *)

\* Publishing the engine's score of an event.
LEMMA ScoreAdded ==
    ASSUME CopiesOK, NEW e, NEW d, Store({AIScore(e, d)})
    PROVE  /\ CopiesOK'
           /\ \A f, c : Copies(AIScore(f, c))' =
                Copies(AIScore(f, c)) + (IF f = e /\ c = d THEN 1 ELSE 0)
<1>1. /\ CopiesOK'
      /\ \A f, c : Copies(AIScore(f, c))' =
            Copies(AIScore(f, c))
            + (IF AIScore(f, c) \in {AIScore(e, d)} THEN 1 ELSE 0)
    BY StoreAdds
<1>2. \A f, c : AIScore(f, c) \in {AIScore(e, d)} <=> f = e /\ c = d
    BY ScoresDiffer, Zenon
<1> QED BY <1>1, <1>2, Zenon

\* A replica at place p of the d-th delivery of message k.
At(k, p, d) == [msg |-> k, pos |-> p, delivery |-> d]

\* What a replica does: it publishes the score at its place, or does not (n is
\* 0), and then goes on to the next place or is done.
LEMMA ReplicaStep ==
    ASSUME WorkInv, stream' = stream, deliveries' = deliveries,
           NEW r \in Replica, replica[r] # Free,
           NEW k, NEW p, NEW d, replica[r] = At(k, p, d),
           NEW n \in {0, 1}, n = 1 => p \in DOMAIN stream[k],
           CopiesOK',
           \A f, c : Copies(AIScore(f, c))' = Copies(AIScore(f, c))
                        + (IF f = stream[k][p] /\ c = d THEN n ELSE 0),
           \A q \in Replica \ {r} : replica'[q] = replica[q],
           \/ replica'[r] = Free
           \/ n = 1 /\ replica'[r] = At(k, p + 1, d),
           replica' \in [Replica -> [msg : Nat, pos : Nat, delivery : Nat]]
    PROVE  ReplicasOK' /\ ScoresOK' /\ \A e : Scored(e) => Scored(e)'
<1> USE DEF WorkInv, EngineInv, At
<1>1. /\ k \in DOMAIN stream /\ p \in 1 .. Len(stream[k]) + 1
      /\ d \in 1 .. deliveries[k] /\ d \in 1 .. MaxDeliver /\ p \in Nat
      /\ stream[k] \in Seq(Nat) /\ deliveries[k] \in Nat
      /\ \A i \in DOMAIN stream[k] : IF i < p THEN Scored(stream[k][i])
                                     ELSE Copies(AIScore(stream[k][i], d)) = 0
    <2>1. Passed(r)
        BY Zenon DEF ReplicasOK
    <2>2. k \in DOMAIN stream /\ p \in 1 .. Len(stream[k]) + 1 /\ d \in 1 .. deliveries[k]
        BY <2>1 DEF Passed, Current
    <2>3. k \in MessageId /\ stream[k] \in Seq(Nat)
        BY <2>2, Message, Zenon
    <2>4. deliveries[k] \in 0 .. MaxDeliver
        BY <2>3, Zenon DEF ReplicasOK
    <2>5. \A i \in DOMAIN stream[k] : IF i < p THEN Scored(stream[k][i])
                                      ELSE Copies(AIScore(stream[k][i], d)) = 0
        BY <2>1 DEF Passed, Current, ScoreAt
    <2> QED BY <2>2, <2>3, <2>4, <2>5, EngineAssumption
<1>2. \A f, c : Copies(AIScore(f, c)) \in Nat
    BY CopiesType, Zenon DEF ScoresOK
<1>3. \A e : Scored(e) => Scored(e)'
    BY <1>2 DEF Scored
<1>4. n = 1 => Scored(stream[k][p])'
    <2>1. n = 1 => Copies(AIScore(stream[k][p], d))' > 0
        BY <1>2
    <2> QED BY <1>1, <2>1, Zenon DEF Scored
<1>5. n = 1 => OnStream(stream[k][p])
    BY <1>1, Zenon DEF OnStream
<1>6. \A e : OnStream(e)' = OnStream(e)
    BY DEF OnStream
<1>7. ASSUME NEW q \in Replica, replica'[q] # Free PROVE Passed(q)'
    <2>1. CASE q = r
        <3>1. /\ n = 1 /\ replica'[q].msg = k /\ replica'[q].pos = p + 1
              /\ replica'[q].delivery = d
            BY <1>7, <2>1
        <3>2. Current(q)' = stream[k]
            <4>1. Current(q)' = stream'[replica'[q].msg]
                BY Zenon DEF Current
            <4> QED BY <3>1, <4>1, Zenon
        <3>3. \A i \in DOMAIN stream[k] : i < p + 1 => Scored(stream[k][i])'
            <4>1. \A i \in DOMAIN stream[k] : i < p + 1 => i < p \/ i = p
                BY <1>1
            <4> QED BY <1>1, <1>3, <1>4, <3>1, <4>1, Zenon
        <3>4. ASSUME NEW i \in DOMAIN stream[k], ~(i < p + 1)
              PROVE  Copies(AIScore(stream[k][i], d))' = 0
            <4>1. i # p /\ ~(i < p)
                BY <1>1, <3>4
            <4>2. stream[k][i] # stream[k][p]
                BY <1>1, <3>1, <4>1, OnePlace
            <4>3. Copies(AIScore(stream[k][i], d)) = 0
                BY <1>1, <4>1, Zenon
            <4> QED BY <4>2, <4>3
        <3>5. p + 1 \in 1 .. Len(stream[k]) + 1
            BY <1>1, <3>1, NextPosition, Zenon
        <3>6. \A i : Copies(ScoreAt(q, i))' = Copies(AIScore(stream[k][i], d))'
            BY <3>1, <3>2 DEF ScoreAt
        <3>7. \A i \in DOMAIN stream[k] : IF i < p + 1 THEN Scored(stream[k][i])'
                                          ELSE Copies(ScoreAt(q, i))' = 0
            BY <3>3, <3>4, <3>6, Zenon
        <3> QED BY <1>1, <3>1, <3>2, <3>5, <3>7, Zenon DEF Passed
    <2>2. CASE q # r
        <3>1. /\ replica'[q] = replica[q] /\ Passed(q) /\ Current(q)' = Current(q)
              /\ OwnDelivery(q, r)
            BY <1>7, <2>2, Zenon DEF ReplicasOK, Current
        <3>2. ASSUME NEW i \in DOMAIN Current(q), ~(i < replica[q].pos)
              PROVE  Copies(ScoreAt(q, i))' = 0
            <4>1. Copies(ScoreAt(q, i)) = 0
                BY <3>1, <3>2, Zenon DEF Passed
            <4>2. ~(n = 1 /\ Current(q)[i] = stream[k][p] /\ replica[q].delivery = d)
                <5>1. replica[q].msg \in DOMAIN stream
                    BY <3>1, Zenon DEF Passed
                <5>2. replica[q].msg # k \/ replica[q].delivery # d
                    BY <2>2, <3>1 DEF OwnDelivery
                <5> QED BY <1>1, <3>2, <5>1, <5>2, OnePlace, ZenonT(60) DEF Current
            <4>3. /\ Copies(ScoreAt(q, i))' =
                        Copies(AIScore(Current(q)[i], replica[q].delivery))'
                  /\ Copies(AIScore(Current(q)[i], replica[q].delivery)) = 0
                BY <3>1, <4>1, Zenon DEF ScoreAt
            <4>4. PICK e, c : e = Current(q)[i] /\ c = replica[q].delivery
                BY Zenon
            <4>5. Copies(AIScore(e, c))' = 0
                BY <4>2, <4>3, <4>4
            <4> QED BY <3>1, <4>4, <4>5, Zenon DEF ScoreAt
        <3> QED BY <1>3, <3>1, <3>2, Zenon DEF Passed
    <2> QED BY <2>1, <2>2, Zenon
<1>8. ASSUME NEW q1 \in Replica, NEW q2 \in Replica,
             replica'[q1] # Free, replica'[q2] # Free
      PROVE  OwnDelivery(q1, q2)'
    <2>1. \A q \in Replica : replica'[q] # Free =>
            /\ replica[q] # Free /\ replica'[q].msg = replica[q].msg
            /\ replica'[q].delivery = replica[q].delivery
        OBVIOUS
    <2> QED BY <1>8, <2>1 DEF ReplicasOK, OwnDelivery
<1>9. ASSUME NEW m \in DOMAIN stream, NEW i \in DOMAIN stream[m],
             NEW c \in 1 .. MaxDeliver
      PROVE  PerDelivery(m, i, c)'
    <2>1. PerDelivery(m, i, c)
        BY Zenon DEF ScoresOK
    <2>2. CASE n = 1 /\ stream[m][i] = stream[k][p] /\ c = d
        <3>1. m = k /\ i = p
            BY <1>1, <2>2, OnePlace
        <3>2. Copies(AIScore(stream[m][i], c)) = 0 /\ c <= deliveries[m]
            BY <1>1, <2>2, <3>1
        <3>3. Copies(AIScore(stream[m][i], c))' = 1
            BY <2>2, <3>2
        <3> QED BY <3>2, <3>3 DEF PerDelivery
    <2>3. CASE ~(n = 1 /\ stream[m][i] = stream[k][p] /\ c = d)
        <3>1. Copies(AIScore(stream[m][i], c))' = Copies(AIScore(stream[m][i], c))
            BY <1>2, <2>3
        <3> QED BY <2>1, <3>1, Zenon DEF PerDelivery
    <2> QED BY <2>2, <2>3, Zenon
<1>10. ReplicasOK'
    BY <1>7, <1>8, Zenon DEF ReplicasOK
<1>11. ASSUME NEW e \in 1 .. MaxArrivals, NEW c \in 1 .. MaxDeliver,
              Copies(AIScore(e, c))' > 0
       PROVE  OnStream(e)'
    <2>1. CASE n = 1 /\ e = stream[k][p]
        BY <1>5, <1>6, <2>1, Zenon
    <2>2. CASE ~(n = 1 /\ e = stream[k][p])
        <3>1. Copies(AIScore(e, c))' = Copies(AIScore(e, c))
            BY <1>2, <2>2
        <3> QED BY <1>6, <1>11, <3>1, Zenon DEF ScoresOK
    <2> QED BY <2>1, <2>2, Zenon
<1>12. ScoresOK'
    BY <1>9, <1>11, Zenon DEF ScoresOK
<1> QED BY <1>3, <1>10, <1>12, Zenon

\* What was scored stays scored, so acks stay good.
LEMMA AnswersKept ==
    ASSUME AnswersOK, stream' = stream,
           \A e : Scored(e) => Scored(e)',
           answer' \in [MessageId -> {"none", "pending", "acked"}],
           \A m \in MessageId : answer'[m] = "acked" =>
                answer[m] = "acked" \/ (m \in DOMAIN stream /\ AllScored(m))
    PROVE  AnswersOK'
<1>1. \A m : AllScored(m) => AllScored(m)'
    BY DEF AllScored
<1> QED BY <1>1, Zenon DEF AnswersOK

\* A replica's step, with the score it publishes if it does.
LEMMA HandlerStep ==
    ASSUME WorkInv, stream' = stream, deliveries' = deliveries,
           NEW r \in Replica, replica[r] # Free,
           \/ /\ replica[r].pos <= Len(Current(r))
              /\ Store({ScoreAt(r, replica[r].pos)})
              /\ Done(r) \/ replica' = [replica EXCEPT ![r].pos = @ + 1]
           \/ threats' = threats /\ Done(r)
    PROVE  ReplicasOK' /\ ScoresOK' /\ \A e : Scored(e) => Scored(e)'
<1> USE DEF WorkInv, EngineInv, At
<1>1. PICK k \in Nat, p \in Nat, d \in Nat :
        replica[r] = At(k, p, d)
    <2>1. replica[r] \in [msg : Nat, pos : Nat, delivery : Nat]
        BY DEF ReplicasOK
    <2> QED BY <2>1
<1>2. k \in DOMAIN stream /\ p \in 1 .. Len(stream[k]) + 1 /\ Current(r) = stream[k]
    BY <1>1 DEF ReplicasOK, Passed, Current
<1>3. stream[k] \in Seq(Nat)
    BY <1>2, Message
<1>4. CASE /\ replica[r].pos <= Len(Current(r))
           /\ Store({ScoreAt(r, replica[r].pos)})
           /\ Done(r) \/ replica' = [replica EXCEPT ![r].pos = @ + 1]
    <2>1. p \in DOMAIN stream[k] /\ Store({AIScore(stream[k][p], d)})
        BY <1>1, <1>2, <1>3, <1>4 DEF ScoreAt
    <2> PICK n \in {0, 1} : n = 1
        OBVIOUS
    <2>2. /\ CopiesOK'
          /\ \A f, c : Copies(AIScore(f, c))' = Copies(AIScore(f, c))
                + (IF f = stream[k][p] /\ c = d THEN n ELSE 0)
        BY <2>1, ScoreAdded DEF ScoresOK
    <2>3. /\ \A q \in Replica \ {r} : replica'[q] = replica[q]
          /\ \/ replica'[r] = Free
             \/ n = 1 /\ replica'[r] = At(k, p + 1, d)
          /\ replica' \in [Replica -> [msg : Nat, pos : Nat, delivery : Nat]]
        <3>1. CASE Done(r)
            BY <3>1 DEF Done, ReplicasOK, Free
        <3>2. CASE replica' = [replica EXCEPT ![r].pos = @ + 1]
            <4>1. [replica[r] EXCEPT !.pos = @ + 1]
                    = At(k, p + 1, d)
                BY <1>1
            <4>2. replica' =
                    [replica EXCEPT ![r] = At(k, p + 1, d)]
                BY <3>2, <4>1, Zenon
            <4> QED BY <4>2 DEF ReplicasOK
        <3> QED BY <1>4, <3>1, <3>2, Zenon
    <2> HIDE DEF WorkInv, EngineInv, At
    <2> QED BY <1>1, <2>1, <2>2, <2>3, ReplicaStep, Zenon
<1>5. CASE threats' = threats /\ Done(r)
    <2>1. CopiesOK'
        BY <1>5 DEF CopiesOK, Copies, ScoresOK
    <2>0. PICK n \in {0, 1} : n = 0
        OBVIOUS
    <2>2. \A f, c : Copies(AIScore(f, c))' = Copies(AIScore(f, c))
                + (IF f = stream[k][p] /\ c = d THEN n ELSE 0)
        <3>1. \A f, c : Copies(AIScore(f, c))' = Copies(AIScore(f, c))
            BY <1>5 DEF Copies
        <3> QED BY <2>0, <3>1, CopiesType DEF ScoresOK
    <2>3. /\ \A q \in Replica \ {r} : replica'[q] = replica[q]
          /\ \/ replica'[r] = Free
             \/ n = 1 /\ replica'[r] = At(k, p + 1, d)
          /\ replica' \in [Replica -> [msg : Nat, pos : Nat, delivery : Nat]]
        BY <1>5 DEF Done, ReplicasOK, Free
    <2>4. n = 1 => p \in DOMAIN stream[k]
        BY <2>0
    <2> HIDE DEF WorkInv, EngineInv, At
    <2> QED BY <1>1, <2>1, <2>2, <2>3, <2>4, ReplicaStep, Zenon
<1> QED BY <1>4, <1>5

\* A new delivery has scored nothing yet.
LEMMA DeliverStep ==
    ASSUME WorkInv, NEW r \in Replica, NEW n \in MessageId, Deliver(r, n)
    PROVE  EngineInv'
<1> USE DEF WorkInv, EngineInv
<1> DEFINE d == deliveries[n] + 1
<1>1. /\ stream' = stream /\ threats' = threats /\ n \in DOMAIN stream
      /\ n \in Nat \ {0} /\ stream[n] \in Seq(Nat) /\ replica[r] = Free
    BY Message DEF Deliver, MessageId
<1>2. /\ d \in 1 .. MaxDeliver /\ deliveries[n] \in Nat
      /\ deliveries' \in [MessageId -> 0 .. MaxDeliver] /\ deliveries'[n] = d
      /\ \A m \in MessageId \ {n} : deliveries'[m] = deliveries[m]
    BY EngineAssumption DEF Deliver, ReplicasOK
<1>3. /\ replica' \in [Replica -> [msg : Nat, pos : Nat, delivery : Nat]]
      /\ replica'[r] = [msg |-> n, pos |-> 1, delivery |-> d]
      /\ \A q \in Replica \ {r} : replica'[q] = replica[q]
    BY <1>1, <1>2 DEF Deliver, ReplicasOK
<1> HIDE DEF d
<1>4. /\ replica'[r].msg = n /\ replica'[r].pos = 1 /\ replica'[r].delivery = d
       /\ replica'[r] = [msg |-> n, pos |-> 1, delivery |-> d]
    <2>1. replica'[r] = [msg |-> n, pos |-> 1, delivery |-> d]
        BY <1>3, Zenon
    <2> QED BY <2>1
<1>5. /\ CopiesOK' /\ \A e : OnStream(e)' = OnStream(e)
      /\ \A x : Copies(x)' = Copies(x)
    BY <1>1, Zenon DEF OnStream, Copies, CopiesOK, ScoresOK
<1>6. \A e : Scored(e)' = Scored(e)
    BY <1>5, Zenon DEF Scored
<1>7. \A m \in MessageId : /\ deliveries[m] \in Nat /\ deliveries'[m] \in Nat
                           /\ deliveries[m] <= deliveries'[m]
    BY <1>2, EngineAssumption DEF ReplicasOK, d
<1>8. ASSUME NEW q \in Replica, replica'[q] # Free PROVE Passed(q)'
    <2>1. CASE q = r
        <3>1. /\ replica'[q].msg = n /\ replica'[q].pos = 1 /\ replica'[q].delivery = d
              /\ Current(q)' = stream[n]
            BY <1>1, <1>4, <2>1, Zenon DEF Current
        <3> 1 \in 1 .. Len(stream[n]) + 1
            BY <1>1
        <3>2. ASSUME NEW i \in DOMAIN stream[n]
              PROVE  ~(i < 1) /\ Copies(ScoreAt(q, i))' = 0
            <4>1. PerDelivery(n, i, d) /\ ~(d <= deliveries[n]) /\ ~(i < 1)
                BY <1>1, <1>2 DEF ScoresOK, d
            <4>2. Copies(AIScore(stream[n][i], d)) = 0
                BY <4>1, CopiesType DEF PerDelivery, ScoresOK
            <4>3. ScoreAt(q, i)' = AIScore(stream[n][i], d)
                BY <3>1, Zenon DEF ScoreAt, AIScore
            <4> QED BY <1>1, <4>1, <4>2, <4>3, Zenon DEF Copies
        <3> QED BY <1>1, <1>2, <3>1, <3>2 DEF Passed
    <2>2. CASE q # r
        <3>1. replica'[q] = replica[q] /\ Passed(q) /\ Current(q)' = Current(q)
            BY <1>1, <1>3, <1>8, <2>2, Zenon DEF ReplicasOK, Current
        <3>2. replica[q].delivery \in 1 .. deliveries'[replica[q].msg]
            <4>1. /\ replica[q].msg \in MessageId
                  /\ replica[q].delivery \in 1 .. deliveries[replica[q].msg]
                BY <3>1, Message, Zenon DEF Passed
            <4> QED BY <1>7, <4>1
        <3>3. \A i : Copies(ScoreAt(q, i))' = Copies(ScoreAt(q, i))
            BY <1>1, <3>1, Zenon DEF ScoreAt, Copies
        <3> QED BY <1>1, <1>6, <3>1, <3>2, <3>3, Zenon DEF Passed
    <2> QED BY <2>1, <2>2, Zenon
<1>9. ASSUME NEW q \in Replica \ {r}, replica[q] # Free, replica[q].msg = n
      PROVE  replica[q].delivery # d
    <2>1. replica[q].delivery \in 1 .. deliveries[n]
        BY <1>9, Zenon DEF ReplicasOK, Passed
    <2> QED BY <1>2, <2>1 DEF d
<1>10. ASSUME NEW q1 \in Replica, NEW q2 \in Replica,
             replica'[q1] # Free, replica'[q2] # Free
      PROVE  OwnDelivery(q1, q2)'
    <2>1. ASSUME NEW q \in Replica \ {r}, replica'[q] # Free
          PROVE  replica'[q].msg # n \/ replica'[q].delivery # d
        BY <1>3, <1>9, <2>1, Zenon
    <2>2. CASE q1 = r
        BY <1>10, <1>4, <2>1, <2>2, Zenon DEF OwnDelivery
    <2>3. CASE q2 = r
        BY <1>10, <1>4, <2>1, <2>3, Zenon DEF OwnDelivery
    <2>4. CASE q1 # r /\ q2 # r
        BY <1>3, <1>10, <2>4, Zenon DEF ReplicasOK, OwnDelivery
    <2> QED BY <2>2, <2>3, <2>4, Zenon
<1>11. ASSUME NEW m \in DOMAIN stream, NEW i \in DOMAIN stream[m],
              NEW c \in 1 .. MaxDeliver
       PROVE  PerDelivery(m, i, c)'
    <2>1. PerDelivery(m, i, c) /\ m \in MessageId
        BY Message DEF ScoresOK
    <2>2. Copies(AIScore(stream[m][i], c))' = Copies(AIScore(stream[m][i], c))
        BY <1>1, <1>5, Zenon DEF Copies
    <2>3. c <= deliveries[m] => c <= deliveries'[m]
        BY <1>7, <2>1, EngineAssumption
    <2>4. Copies(AIScore(stream[m][i], c)) \in Nat
        BY CopiesType, Zenon DEF ScoresOK
    <2> QED BY <1>1, <2>1, <2>2, <2>3, <2>4 DEF PerDelivery
<1>12. ReplicasOK'
    BY <1>2, <1>3, <1>8, <1>10, Zenon DEF ReplicasOK
<1>13. ScoresOK'
    BY <1>1, <1>5, <1>11 DEF ScoresOK
<1>14. AnswersOK'
    <2>1. /\ answer' \in [MessageId -> {"none", "pending", "acked"}]
          /\ \A m \in MessageId : answer'[m] = "acked" => answer[m] = "acked"
        BY Zenon DEF Deliver, AnswersOK
    <2> QED BY <1>1, <1>6, <2>1, AnswersKept, Zenon
<1> QED BY <1>12, <1>13, <1>14

LEMMA EngineKeepsInv ==
    ASSUME WorkInv, EngineNext PROVE EngineInv'
<1> USE DEF WorkInv, EngineInv
<1>1. ASSUME NEW r \in Replica, ScoreEvent(r) PROVE EngineInv'
    <2>1. ReplicasOK' /\ ScoresOK' /\ \A e : Scored(e) => Scored(e)'
        BY <1>1, HandlerStep, Zenon DEF ScoreEvent
    <2>2. AnswersOK'
        BY <1>1, <2>1, AnswersKept, Zenon DEF ScoreEvent, AnswersOK
    <2> QED BY <2>1, <2>2
<1>2. ASSUME NEW r \in Replica, ScoreFails(r) PROVE EngineInv'
    <2>1. ReplicasOK' /\ ScoresOK' /\ \A e : Scored(e) => Scored(e)'
        BY <1>2, HandlerStep, Zenon DEF ScoreFails
    <2>2. /\ answer' \in [MessageId -> {"none", "pending", "acked"}]
          /\ \A m \in MessageId : answer'[m] = "acked" => answer[m] = "acked"
        BY <1>2, Zenon DEF ScoreFails, AnswersOK
    <2>3. AnswersOK'
        BY <1>2, <2>1, <2>2, AnswersKept, Zenon DEF ScoreFails
    <2> QED BY <2>1, <2>3
<1>3. ASSUME NEW r \in Replica, Ack(r) PROVE EngineInv'
    <2>1. ReplicasOK' /\ ScoresOK' /\ \A e : Scored(e) => Scored(e)'
        BY <1>3, HandlerStep, Zenon DEF Ack
    <2>2. replica[r].msg \in DOMAIN stream /\ AllScored(replica[r].msg)
        <3>1. Passed(r) /\ replica[r].pos > Len(Current(r)) /\ replica[r].pos \in Nat
            BY <1>3, Zenon DEF Ack, ReplicasOK
        <3>2. Current(r) \in Seq(Nat) /\ replica[r].msg \in DOMAIN stream
            BY <3>1, Message, Zenon DEF Passed, Current
        <3>3. \A i \in DOMAIN Current(r) : i < replica[r].pos
            <4>1. DOMAIN Current(r) = 1 .. Len(Current(r)) /\ Len(Current(r)) \in Nat
                BY <3>2
            <4> QED BY <3>1, <4>1
        <3>4. \A i \in DOMAIN Current(r) : Scored(Current(r)[i])
            BY <3>1, <3>3, Zenon DEF Passed
        <3> QED BY <3>2, <3>4 DEF AllScored, Current
    <2>3. /\ answer' \in [MessageId -> {"none", "pending", "acked"}]
          /\ \A m \in MessageId :
                answer'[m] = "acked" => answer[m] = "acked" \/ m = replica[r].msg
        BY <1>3, Zenon DEF Ack, AnswersOK
    <2>4. AnswersOK'
        BY <1>3, <2>1, <2>2, <2>3, AnswersKept, Zenon DEF Ack
    <2> QED BY <2>1, <2>4
<1>4. ASSUME NEW r \in Replica, ReplicaDies(r) PROVE EngineInv'
    <2>1. ReplicasOK' /\ ScoresOK' /\ \A e : Scored(e) => Scored(e)'
        BY <1>4, HandlerStep, Zenon DEF ReplicaDies
    <2>2. AnswersOK'
        BY <1>4, <2>1, AnswersKept, Zenon DEF ReplicaDies, AnswersOK
    <2> QED BY <2>1, <2>2
<1>5. ASSUME NEW n \in MessageId, Expire(n) PROVE EngineInv'
    <2>1. /\ stream' = stream /\ threats' = threats /\ replica' = replica
          /\ deliveries' = deliveries
        BY <1>5, Zenon DEF Expire
    <2>2. /\ answer' \in [MessageId -> {"none", "pending", "acked"}]
          /\ \A m \in MessageId : answer'[m] = "acked" => answer[m] = "acked"
        BY <1>5, Zenon DEF Expire, AnswersOK
    <2>3. \A x : Copies(x)' = Copies(x)
        BY <2>1, Zenon DEF Copies
    <2>4. \A e : Scored(e)' = Scored(e)
        BY <2>3 DEF Scored
    <2>5. ReplicasOK'
        BY <2>1, <2>3, <2>4, Zenon DEF ReplicasOK, Passed, Current, OwnDelivery, ScoreAt, Copies
    <2>6. ScoresOK'
        BY <2>1, <2>3, Zenon DEF ScoresOK, CopiesOK, OnStream, PerDelivery, Copies
    <2>7. AnswersOK'
        BY <2>1, <2>2, <2>4, AnswersKept, Zenon
    <2> QED BY <2>5, <2>6, <2>7, Zenon
<1> QED BY <1>1, <1>2, <1>3, <1>4, <1>5, DeliverStep, Zenon DEF EngineNext

LEMMA EngineStart ==
    ASSUME EngineInit, stream = <<>>, threats = <<>> PROVE EngineInv
<1>1. DOMAIN stream = {} /\ DOMAIN threats = {}
    OBVIOUS
<1>2. ReplicasOK
    BY EngineAssumption DEF EngineInit, ReplicasOK, Free
<1>3. ScoresOK
    BY <1>1 DEF ScoresOK, CopiesOK, Copies
<1>4. AnswersOK
    BY Zenon DEF EngineInit, AnswersOK
<1> QED BY <1>2, <1>3, <1>4 DEF EngineInv

-----------------------------------------------------------------------------
(* The path of an event. *)

-----------------------------------------------------------------------------
(* The inductive invariant. *)

\* What has arrived is numbered.
BusTypeOK ==
    /\ load \in Loads /\ arrivals \in 0 .. load.arrivals
    /\ stream \in Seq(Seq(Nat)) /\ batch \in Seq(Nat)
    /\ taken \subseteq 1 .. arrivals

\* Every number that became an event waits, is published or lost, and what
\* waits is neither.
Accounted ==
    /\ Events(batch) \cup Published \cup lost = taken
    /\ Events(batch) \cap (Published \cup lost) = {}

\* No number has two places.
InOnePlace(msg) == \A i, j \in DOMAIN msg : msg[i] = msg[j] => i = j

Apart(s, t) == \A i \in DOMAIN s, j \in DOMAIN t : s[i] # t[j]

Unrepeated ==
    /\ InOnePlace(batch) /\ \A m \in DOMAIN stream : InOnePlace(stream[m])
    /\ \A m, n \in DOMAIN stream : m # n => Apart(stream[m], stream[n])

\* A message has at least one arrival of its own, and so will the batch.
Sized ==
    /\ \A m \in DOMAIN stream : Len(stream[m]) \in 1 .. BatchSize
    /\ Len(batch) < BatchSize
    /\ Len(stream) + (IF batch = <<>> THEN 0 ELSE 1) <= arrivals

SourceInv == BusTypeOK /\ Accounted /\ Unrepeated /\ Sized

-----------------------------------------------------------------------------
(* The sources. *)

\* What is published has a place on the stream.
LEMMA PublishedPlace ==
    ASSUME NEW e
    PROVE  e \in Published <=>
            \E m \in DOMAIN stream : \E i \in DOMAIN stream[m] : e = stream[m][i]
BY DEF Published, Events

\* Messages without a common event are apart.
LEMMA EventsApart ==
    ASSUME NEW s, NEW t
    PROVE  Events(s) \cap Events(t) = {} <=> Apart(s, t)
BY DEF Events, Apart

\* Appending a message adds its events to those published.
LEMMA StreamGrows ==
    ASSUME stream \in Seq(Seq(Nat)), NEW msg \in Seq(Nat),
           stream' = Append(stream, msg)
    PROVE  /\ stream' \in Seq(Seq(Nat)) /\ Len(stream') = Len(stream) + 1
           /\ DOMAIN stream' = DOMAIN stream \cup {Len(stream) + 1}
           /\ \A m \in DOMAIN stream : stream'[m] = stream[m]
           /\ stream'[Len(stream) + 1] = msg
           /\ Len(stream) + 1 \notin DOMAIN stream
           /\ Published' = Published \cup Events(msg)
<1>1. /\ stream' \in Seq(Seq(Nat)) /\ Len(stream') = Len(stream) + 1
      /\ DOMAIN stream' = DOMAIN stream \cup {Len(stream) + 1}
      /\ \A m \in DOMAIN stream : stream'[m] = stream[m]
      /\ stream'[Len(stream) + 1] = msg
      /\ Len(stream) + 1 \notin DOMAIN stream
    OBVIOUS
<1>2. Published' = UNION {Events(stream'[m]) : m \in DOMAIN stream'}
    BY DEF Published, Events
<1>3. ASSUME NEW e
      PROVE  e \in Published' <=> e \in Published \/ e \in Events(msg)
    BY <1>1, <1>2, Zenon DEF Published
<1>4. Published' = Published \cup Events(msg)
    BY <1>3
<1> QED BY <1>1, <1>4, Zenon

LEMMA SizeOfMessage ==
    ASSUME NEW m \in Seq(Nat), m # <<>>, NEW n \in Nat, Len(m) <= n
    PROVE  Len(m) \in 1 .. n
OBVIOUS

\* A publish moves the events of its message to the stream, or loses them.
LEMMA PublishStep ==
    ASSUME SourceInv, NEW msg \in Seq(Nat), NEW ok \in BOOLEAN,
           PublishBatch(msg, ok), msg # <<>>, Len(msg) <= BatchSize,
           batch' \in Seq(Nat), Len(batch') < BatchSize,
           InOnePlace(msg), InOnePlace(batch'),
           Events(msg) \cap (Published \cup lost \cup Events(batch')) = {},
           Events(batch') \cap (Published \cup lost) = {},
           Events(batch') \cup Events(msg) \cup Published \cup lost = taken',
           load' = load, arrivals' \in 0 .. load.arrivals,
           taken' \subseteq 1 .. arrivals',
           Len(stream) + 1 + (IF batch' = <<>> THEN 0 ELSE 1) <= arrivals'
    PROVE  SourceInv'
<1>1. /\ \/ stream' = Append(stream, msg)
         \/ ~ok /\ UNCHANGED stream
      /\ lost' = IF ok THEN lost ELSE lost \cup Events(msg)
    BY Zenon DEF PublishBatch
<1>2. Len(msg) \in 1 .. BatchSize /\ Len(stream) \in Nat
    <2>1. stream \in Seq(Seq(Nat)) /\ BatchSize \in Nat
        BY PublisherAssumption DEF SourceInv, BusTypeOK
    <2>2. Len(stream) \in Nat
        BY <2>1
    <2> QED BY <2>1, <2>2, SizeOfMessage, Zenon
<1>3. Events(batch)' = Events(batch') /\ InOnePlace(batch)' = InOnePlace(batch')
    BY DEF Events, InOnePlace
<1>4. CASE stream' = Append(stream, msg)
    <2>1. /\ stream' \in Seq(Seq(Nat)) /\ Len(stream') = Len(stream) + 1
          /\ DOMAIN stream' = DOMAIN stream \cup {Len(stream) + 1}
          /\ \A m \in DOMAIN stream : stream'[m] = stream[m]
          /\ stream'[Len(stream) + 1] = msg
          /\ Len(stream) + 1 \notin DOMAIN stream
          /\ Published' = Published \cup Events(msg)
        BY <1>4, StreamGrows, Zenon DEF SourceInv, BusTypeOK
    <2>2. \A m \in DOMAIN stream : Apart(stream[m], msg) /\ Apart(msg, stream[m])
        <3>1. \A m \in DOMAIN stream : Events(stream[m]) \subseteq Published
            BY Zenon DEF Published
        <3> QED BY <3>1, EventsApart, Zenon
    <2>3. Unrepeated'
        <3>1. /\ \A m \in DOMAIN stream' : InOnePlace(stream'[m])
              /\ \A m, n \in DOMAIN stream' : m # n => Apart(stream'[m], stream'[n])
            BY <2>1, <2>2, Zenon DEF SourceInv, Unrepeated
        <3> QED BY <1>3, <3>1, Zenon DEF Unrepeated, InOnePlace, Apart
    <2>4. Sized'
        BY <1>2, <2>1, Zenon DEF SourceInv, Sized
    <2>5. Accounted'
        BY <1>1, <1>3, <2>1, Zenon DEF Accounted
    <2>6. BusTypeOK'
        BY <2>1 DEF SourceInv, BusTypeOK
    <2> QED BY <2>3, <2>4, <2>5, <2>6, Zenon DEF SourceInv
<1>5. CASE ~ok /\ UNCHANGED stream
    <2>1. UNCHANGED Published
        BY <1>5 DEF Published, Events
    <2>2. Accounted'
        BY <1>1, <1>3, <1>5, <2>1, Zenon DEF Accounted
    <2>3. Unrepeated'
        BY <1>3, <1>5 DEF SourceInv, Unrepeated, InOnePlace, Apart
    <2>4. Sized'
        BY <1>2, <1>5 DEF SourceInv, Sized
    <2>5. BusTypeOK'
        BY <1>5, Zenon DEF SourceInv, BusTypeOK
    <2> QED BY <2>2, <2>3, <2>4, <2>5, Zenon DEF SourceInv
<1> QED BY <1>1, <1>4, <1>5, Zenon

\* An arrival that becomes no event changes no place.
LEMMA NoEventStep ==
    ASSUME SourceInv, UNCHANGED <<load, stream, batch, taken, lost>>,
           arrivals' \in arrivals .. load.arrivals
    PROVE  SourceInv'
<1>1. arrivals \in Nat /\ load.arrivals \in Nat
    BY BusAssumption DEF SourceInv, BusTypeOK
<1>2. BusTypeOK' /\ Sized'
    BY <1>1 DEF SourceInv, BusTypeOK, Sized
<1>3. Accounted' /\ Unrepeated'
    BY DEF SourceInv, Accounted, Unrepeated, Published, Events, InOnePlace, Apart
<1> QED BY <1>2, <1>3, Zenon DEF SourceInv

\* The number of the next arrival.
LEMMA Arrival ==
    ASSUME SourceInv, Arrives
    PROVE  /\ arrivals' = arrivals + 1 /\ arrivals \in Nat
           /\ arrivals' \in 0 .. load.arrivals /\ arrivals' \in arrivals .. load.arrivals
           /\ arrivals' \notin taken /\ taken \cup {arrivals'} \subseteq 1 .. arrivals'
BY BusAssumption DEF SourceInv, BusTypeOK, Arrives

\* A packet's event joins the batch, last.
LEMMA Batched ==
    ASSUME SourceInv, NEW e \in Nat, e \notin taken
    PROVE  LET b == Append(batch, e) IN
           /\ b \in Seq(Nat) /\ b # <<>> /\ Len(b) = Len(batch) + 1
           /\ Events(b) = Events(batch) \cup {e} /\ InOnePlace(b)
           /\ Len(b) <= BatchSize
<1> DEFINE b == Append(batch, e)
<1>1. batch \in Seq(Nat) /\ Len(batch) < BatchSize /\ BatchSize \in Nat
    BY PublisherAssumption, Zenon DEF SourceInv, BusTypeOK, Sized
<1>2. /\ b \in Seq(Nat) /\ b # <<>> /\ Len(b) = Len(batch) + 1
      /\ DOMAIN b = DOMAIN batch \cup {Len(batch) + 1}
      /\ \A i \in DOMAIN batch : b[i] = batch[i]
      /\ b[Len(batch) + 1] = e /\ Len(b) <= BatchSize
    BY <1>1
<1> HIDE DEF b
<1>3. Events(b) = Events(batch) \cup {e}
    BY <1>2 DEF Events
<1>4. \A i \in DOMAIN batch : batch[i] # e
    BY Zenon DEF SourceInv, Accounted, Events
<1>5. InOnePlace(b)
    BY <1>2, <1>4, Zenon DEF SourceInv, Unrepeated, InOnePlace
<1> QED BY <1>2, <1>3, <1>5, Zenon DEF b

\* The empty batch.
LEMMA EmptyBatch ==
    /\ <<>> \in Seq(Nat) /\ Len(<<>>) = 0 /\ Events(<<>>) = {} /\ InOnePlace(<<>>)
BY DEF Events, InOnePlace

\* A packet: its event is counted once, in the batch or in a message.
LEMMA ReceiveStep ==
    ASSUME SourceInv, NEW evt, Receive(evt)
    PROVE  SourceInv'
<1> DEFINE b == Append(batch, arrivals')
<1>1. Arrives /\ taken' = taken \cup {arrivals'} /\ load' = load
    BY Zenon DEF Receive
<1>2. /\ arrivals' = arrivals + 1 /\ arrivals \in Nat
      /\ arrivals' \in 0 .. load.arrivals
      /\ arrivals' \notin taken /\ taken' \subseteq 1 .. arrivals'
    BY <1>1, Arrival, Zenon
<1>3. /\ b \in Seq(Nat) /\ b # <<>> /\ Len(b) = Len(batch) + 1
      /\ Events(b) = Events(batch) \cup {arrivals'} /\ InOnePlace(b)
      /\ Len(b) <= BatchSize
    BY <1>2, Batched
<1>4. /\ Len(stream) \in Nat /\ Len(stream) <= arrivals
      /\ BatchSize \in Nat \ {0} /\ Len(batch) \in Nat
    BY <1>2, PublisherAssumption DEF SourceInv, BusTypeOK, Sized
<1>5. /\ Events(batch) \cup Published \cup lost = taken
      /\ Events(batch) \cap (Published \cup lost) = {}
    BY DEF SourceInv, Accounted
<1>6. PICK ok \in BOOLEAN :
        \/ Flush(b, ok)
        \/ Len(b) < BatchSize /\ batch' = b /\ UNCHANGED <<stream, lost>>
    BY Zenon DEF Receive
<1> HIDE DEF b
<1>7. CASE Flush(b, ok)
    <2>1. PublishBatch(b, ok) /\ batch' = <<>>
        BY <1>7 DEF Flush
    <2>2. /\ batch' \in Seq(Nat) /\ Len(batch') = 0
          /\ Events(batch') = {} /\ InOnePlace(batch')
        BY <2>1, EmptyBatch, Zenon
    <2>3. /\ Len(batch') < BatchSize
          /\ Len(stream) + 1 + (IF batch' = <<>> THEN 0 ELSE 1) <= arrivals'
        BY <1>2, <1>4, <2>1, <2>2
    <2>4. /\ Events(b) \cap (Published \cup lost \cup Events(batch')) = {}
          /\ Events(batch') \cap (Published \cup lost) = {}
          /\ Events(batch') \cup Events(b) \cup Published \cup lost = taken'
        BY <1>1, <1>2, <1>3, <1>5, <2>2
    <2> QED BY <1>1, <1>2, <1>3, <2>1, <2>2, <2>3, <2>4, PublishStep, Zenon
<1>8. CASE Len(b) < BatchSize /\ batch' = b /\ UNCHANGED <<stream, lost>>
    <2>1. /\ UNCHANGED Published /\ Events(batch)' = Events(b)
          /\ InOnePlace(batch)' = InOnePlace(b)
        BY <1>8 DEF Published, Events, InOnePlace
    <2>2. Accounted'
        BY <1>1, <1>2, <1>3, <1>5, <1>8, <2>1, Zenon DEF Accounted
    <2>3. Unrepeated'
        BY <1>3, <1>8, <2>1 DEF SourceInv, Unrepeated, InOnePlace, Apart
    <2>4. Sized'
        BY <1>2, <1>3, <1>4, <1>8 DEF SourceInv, Sized
    <2>5. BusTypeOK'
        BY <1>1, <1>2, <1>3, <1>8, Zenon DEF SourceInv, BusTypeOK
    <2> QED BY <2>2, <2>3, <2>4, <2>5, Zenon DEF SourceInv
<1> QED BY <1>6, <1>7, <1>8, Zenon

\* A flush empties the batch into a message.
LEMMA FlushStep ==
    ASSUME SourceInv, NEW ok \in BOOLEAN, FlushRest(ok), batch = <<>> => ok
    PROVE  SourceInv'
<1>1. /\ PublishBatch(batch, ok) /\ batch' = <<>>
      /\ UNCHANGED <<load, arrivals, taken>>
    BY Zenon DEF FlushRest, Flush
<1>2. /\ arrivals \in Nat /\ arrivals \in 0 .. load.arrivals
      /\ arrivals \in arrivals .. load.arrivals
    BY BusAssumption DEF SourceInv, BusTypeOK
<1>3. CASE batch = <<>>
    <2>1. UNCHANGED <<stream, lost>>
        BY <1>1, <1>3, Zenon DEF PublishBatch
    <2> QED BY <1>1, <1>2, <1>3, <2>1, NoEventStep, Zenon
<1>4. CASE batch # <<>>
    <2>1. /\ batch \in Seq(Nat) /\ Len(batch) <= BatchSize /\ InOnePlace(batch)
          /\ Len(stream) + 1 <= arrivals /\ 0 < BatchSize
        BY <1>4, PublisherAssumption DEF SourceInv, BusTypeOK, Sized, Unrepeated
    <2>2. /\ Events(batch) \cup Published \cup lost = taken
          /\ Events(batch) \cap (Published \cup lost) = {}
          /\ taken \subseteq 1 .. arrivals /\ Len(stream) \in Nat
        BY DEF SourceInv, Accounted, BusTypeOK
    <2> QED BY <1>1, <1>2, <1>4, <2>1, <2>2, EmptyBatch, PublishStep
<1> QED BY <1>3, <1>4, Zenon

\* A flow or an alert is a message of its own.
LEMMA ArrivalStep ==
    ASSUME SourceInv, NEW ok \in BOOLEAN, Arrives, PublishArrival(ok),
           UNCHANGED <<load, batch>>
    PROVE  SourceInv'
<1> DEFINE msg == <<arrivals'>>
<1>1. /\ arrivals' = arrivals + 1 /\ arrivals \in Nat
      /\ arrivals' \in 0 .. load.arrivals
      /\ arrivals' \notin taken /\ taken \cup {arrivals'} \subseteq 1 .. arrivals'
    BY Arrival, Zenon
<1>2. /\ msg \in Seq(Nat) /\ msg # <<>> /\ Len(msg) = 1
      /\ Events(msg) = {arrivals'} /\ InOnePlace(msg)
    BY <1>1 DEF Events, InOnePlace
<1>3. PublishBatch(msg, ok) /\ taken' = taken \cup {arrivals'}
    BY Zenon DEF PublishArrival
<1> HIDE DEF msg
<1>4. /\ Events(batch) \cup Published \cup lost = taken
      /\ Events(batch) \cap (Published \cup lost) = {}
      /\ InOnePlace(batch) /\ batch \in Seq(Nat) /\ Len(batch) < BatchSize
      /\ BatchSize \in Nat \ {0} /\ Len(stream) \in Nat
      /\ Len(stream) + (IF batch = <<>> THEN 0 ELSE 1) <= arrivals
    BY PublisherAssumption DEF SourceInv, Accounted, BusTypeOK, Sized, Unrepeated
<1>5. /\ Events(msg) \cap (Published \cup lost \cup Events(batch)) = {}
      /\ Events(batch) \cup Events(msg) \cup Published \cup lost = taken'
      /\ Len(msg) <= BatchSize /\ taken' \subseteq 1 .. arrivals'
      /\ Len(stream) + 1 + (IF batch = <<>> THEN 0 ELSE 1) <= arrivals'
    <2>1. /\ Events(msg) \cap (Published \cup lost \cup Events(batch)) = {}
          /\ Events(batch) \cup Events(msg) \cup Published \cup lost = taken'
          /\ taken' \subseteq 1 .. arrivals'
        BY <1>1, <1>2, <1>3, <1>4, Zenon
    <2>2. Len(msg) <= BatchSize
        BY <1>2, <1>4
    <2>3. Len(stream) + 1 + (IF batch = <<>> THEN 0 ELSE 1) <= arrivals'
        BY <1>1, <1>4
    <2> QED BY <2>1, <2>2, <2>3, Zenon
<1>6. batch' = batch /\ load' = load
    OBVIOUS
<1>7. /\ batch' \in Seq(Nat) /\ Len(batch') < BatchSize /\ InOnePlace(batch')
      /\ Events(msg) \cap (Published \cup lost \cup Events(batch')) = {}
      /\ Events(batch') \cap (Published \cup lost) = {}
      /\ Events(batch') \cup Events(msg) \cup Published \cup lost = taken'
      /\ Len(stream) + 1 + (IF batch' = <<>> THEN 0 ELSE 1) <= arrivals'
    BY <1>4, <1>5, <1>6, Zenon
<1> QED BY <1>1, <1>2, <1>3, <1>5, <1>6, <1>7, PublishStep, Zenon

\* Every step keeps every event in one place.
LEMMA SourceStep == SourceInv /\ [PathNext]_pathVars => SourceInv'
<1> SUFFICES ASSUME SourceInv, [PathNext]_pathVars PROVE SourceInv'
    BY Zenon
<1>1. arrivals \in arrivals .. load.arrivals
    BY BusAssumption DEF SourceInv, BusTypeOK
<1>2. CASE UNCHANGED <<load, arrivals, stream, batch, taken, lost>>
    BY <1>1, <1>2, NoEventStep, Zenon
<1>3. CASE UNCHANGED pathVars
    BY <1>2, <1>3, Zenon DEF pathVars, busVars, inputVars, publisherVars
<1>4. CASE EngineStep
    BY <1>2, <1>4, Zenon DEF EngineStep, EngineNext, Expire, Deliver, ScoreEvent,
                      ScoreFails, Ack, ReplicaDies, inputVars, publisherVars
<1>5. CASE PublisherStep
    <2>1. CASE Drop
        <3>1. arrivals' \in arrivals .. load.arrivals
            BY <2>1, Arrival, Zenon DEF Drop
        <3> QED BY <2>1, <3>1, NoEventStep, Zenon DEF Drop, publisherVars
    <2>2. CASE TickerFlush
        BY <2>2, FlushStep, Zenon DEF TickerFlush
    <2>3. CASE Stop
        BY <2>3, FlushStep, Zenon DEF Stop
    <2>4. CASE PublisherConnect \/ PublisherTick
        BY <1>2, <2>4 DEF PublisherConnect, Connect, PublisherTick, busVars,
                          publisherVars
    <2>5. CASE \E evt \in Packet : Receive(evt)
        BY <2>5, ReceiveStep, Zenon
    <2> QED BY <1>5, <2>1, <2>2, <2>3, <2>4, <2>5, Zenon DEF PublisherStep, PublisherNext
<1>6. CASE ObserverStep
    <2>1. batch' = batch
        BY <1>6, Zenon DEF ObserverStep, publisherVars
    <2>2. ASSUME NEW f \in Flow, Recv(f) PROVE SourceInv'
        <3>1. CASE \E ok \in BOOLEAN : PublishArrival(ok)
            BY <2>1, <2>2, <3>1, ArrivalStep, Zenon DEF Recv
        <3>2. CASE UNCHANGED <<stream, losses, taken, lost>>
            <4>1. arrivals' \in arrivals .. load.arrivals
                BY <2>2, Arrival, Zenon DEF Recv
            <4> QED BY <2>1, <2>2, <3>2, <4>1, NoEventStep, Zenon DEF Recv
        <3> QED BY <2>2, <3>1, <3>2, Zenon DEF Recv
    <2>3. CASE GetFlows \/ StreamEnds \/ Retry \/ ObserverStops \/ ObserverConnect
        BY <1>2, <2>1, <2>3, Zenon DEF GetFlows, StreamEnds, Retry, ObserverStops,
                                ObserverConnect, Connect, busVars
    <2> QED BY <1>6, <2>2, <2>3, Zenon DEF ObserverStep, ObserverNext
<1>7. CASE BridgeStep
    <2>1. batch' = batch
        BY <1>7, Zenon DEF BridgeStep, publisherVars
    <2>2. CASE Refuse
        <3>1. arrivals' \in arrivals .. load.arrivals
            BY <2>2, Arrival, Zenon DEF Refuse
        <3> QED BY <2>1, <2>2, <3>1, NoEventStep, Zenon DEF Refuse
    <2>3. CASE handle
        BY <2>1, <2>3, ArrivalStep, Zenon DEF handle
    <2> QED BY <1>7, <2>2, <2>3, Zenon DEF BridgeStep, BridgeNext
<1> QED BY <1>3, <1>4, <1>5, <1>6, <1>7 DEF PathNext

\* The engine finds what it needs.
LEMMA StreamIsOK == SourceInv => StreamOK
<1> SUFFICES ASSUME SourceInv PROVE StreamOK
    BY Zenon
<1>1. /\ stream \in Seq(Seq(Nat)) /\ arrivals \in Nat /\ MaxArrivals \in Nat
      /\ arrivals <= MaxArrivals
    BY BusAssumption DEF SourceInv, BusTypeOK
<1>2. Published \subseteq 1 .. arrivals
    BY Zenon DEF SourceInv, BusTypeOK, Accounted
<1>3. DOMAIN stream \subseteq MessageId
    BY <1>1 DEF SourceInv, Sized, MessageId
<1>4. ASSUME NEW m \in DOMAIN stream, NEW i \in DOMAIN stream[m]
      PROVE  stream[m][i] \in Published
    BY PublishedPlace
<1>5. \A m \in DOMAIN stream : \A i \in DOMAIN stream[m] :
        stream[m][i] \in 1 .. MaxArrivals
    BY <1>1, <1>2, <1>4
<1>6. \A m, n \in DOMAIN stream : \A i \in DOMAIN stream[m], j \in DOMAIN stream[n] :
        stream[m][i] = stream[n][j] => m = n /\ i = j
    BY DEF SourceInv, Unrepeated, InOnePlace, Apart
<1> QED BY <1>1, <1>3, <1>5, <1>6, Zenon DEF StreamOK

LEMMA SourceInvariance == PathSpec => []SourceInv
<1>1. PathInit => SourceInv
    <2> SUFFICES ASSUME PathInit PROVE SourceInv
        BY Zenon
    <2>1. /\ batch = <<>> /\ stream = <<>> /\ load \in Loads
          /\ arrivals = 0 /\ taken = {} /\ lost = {}
        BY Zenon DEF PathInit, IngestInit, BusInit, PublisherInit
    <2>2. /\ DOMAIN stream = {} /\ DOMAIN batch = {}
          /\ Published = {} /\ Events(batch) = {}
        BY <2>1 DEF Published, Events
    <2> QED BY <2>1, <2>2, BusAssumption, PublisherAssumption
            DEF SourceInv, BusTypeOK, Accounted, Unrepeated, InOnePlace, Apart, Sized
<1> QED BY <1>1, SourceStep, PTL DEF PathSpec

-----------------------------------------------------------------------------
(* The sources, seen from the engine. *)

\* Scores of the AI engine are none of the flood rules.
LEMMA FloodScoresDiffer ==
    ASSUME NEW e, NEW d, NEW s, NEW t
    PROVE  /\ AIScore(e, d) # [model |-> "tunnel", source |-> s, teid |-> t]
           /\ AIScore(e, d) # [model |-> "source", source |-> s, teid |-> t]
<1>1. /\ AIScore(e, d).model = "autoencoder-v1"
      /\ [model |-> "tunnel", source |-> s, teid |-> t].model = "tunnel"
      /\ [model |-> "source", source |-> s, teid |-> t].model = "source"
    BY DEF AIScore
<1> QED BY <1>1, Zenon

LEMMA SourceExtends ==
    ASSUME SourceInv, PublisherStep \/ ObserverStep \/ BridgeStep
    PROVE  Extends
<1>1. ASSUME NEW msg \in Seq(Nat), NEW ok, PublishBatch(msg, ok)
      PROVE  stream' = stream \/ \E m \in Seq(Nat) : stream' = Append(stream, m)
    BY <1>1, Zenon DEF PublishBatch
<1>2. UNCHANGED engineVars
    BY Zenon DEF PublisherStep, ObserverStep, BridgeStep
<1>3. batch \in Seq(Nat)
    BY DEF SourceInv, BusTypeOK
<1>4. ASSUME Arrives, NEW ok, PublishArrival(ok)
      PROVE  stream' = stream \/ \E m \in Seq(Nat) : stream' = Append(stream, m)
    <2>1. <<arrivals'>> \in Seq(Nat)
        BY <1>4, Arrival
    <2> QED BY <1>1, <1>4, <2>1, Zenon DEF PublishArrival
<1>5. CASE UNCHANGED <<stream, threats>>
    BY <1>2, <1>5, Zenon DEF Extends
<1>6. CASE PublisherStep
    <2>1. CASE Drop \/ PublisherConnect \/ PublisherTick
        BY <1>5, <2>1 DEF Drop, PublisherConnect, Connect, PublisherTick, busVars
    <2>2. CASE TickerFlush \/ Stop
        BY <1>1, <1>2, <1>3, <2>2, Zenon DEF TickerFlush, Stop, FlushRest, Flush, Extends
    <2>3. ASSUME NEW evt \in Packet, Receive(evt) PROVE Extends
        <3>1. Append(batch, arrivals') \in Seq(Nat)
            BY <1>3, <2>3, Arrival DEF Receive
        <3>2. stream' = stream \/ \E m \in Seq(Nat) : stream' = Append(stream, m)
            BY <1>1, <2>3, <3>1, Zenon DEF Receive, Flush
        <3>3. PICK S \in SUBSET Scores(evt) : Store(S)
            BY <2>3 DEF Receive, PublishScores
        <3>4. \A e, d : AIScore(e, d) \notin S
            BY FloodScoresDiffer, Zenon DEF Scores
        <3> QED BY <1>2, <3>2, <3>3, <3>4, Zenon DEF Extends
    <2> QED BY <1>6, <2>1, <2>2, <2>3, Zenon DEF PublisherStep, PublisherNext
<1>7. CASE ObserverStep
    <2>1. threats' = threats
        BY <1>7, ZenonT(60) DEF ObserverStep, ObserverNext, GetFlows, StreamEnds, Retry,
                    ObserverStops, ObserverConnect, Connect, Recv, busVars
    <2>2. stream' = stream \/ \E m \in Seq(Nat) : stream' = Append(stream, m)
        BY <1>4, <1>7, Zenon DEF ObserverStep, ObserverNext, GetFlows, StreamEnds, Retry,
                          ObserverStops, ObserverConnect, Connect, Recv, busVars
    <2> QED BY <1>2, <2>1, <2>2, Zenon DEF Extends
<1>8. CASE BridgeStep
    BY <1>2, <1>4, <1>8, Zenon DEF BridgeStep, BridgeNext, Refuse, handle, Extends
<1> QED BY <1>6, <1>7, <1>8, Zenon

PathInv == SourceInv /\ WorkInv

LEMMA PathInvariance == PathSpec => []PathInv
<1>1. PathInit => EngineInv
    BY EngineStart, Zenon DEF PathInit, IngestInit, BusInit
<1>2. SourceInv /\ StreamOK /\ StreamOK' /\ EngineInv /\ [PathNext]_pathVars => EngineInv'
    <2> SUFFICES ASSUME SourceInv, StreamOK, StreamOK', EngineInv, [PathNext]_pathVars
                 PROVE  EngineInv'
        OBVIOUS
    <2>1. WorkInv
        BY Zenon DEF WorkInv
    <2>2. CASE PublisherStep \/ ObserverStep \/ BridgeStep
        BY <2>1, <2>2, SourceExtends, SourceKeepsEngine, Zenon
    <2>3. CASE EngineStep
        BY <2>1, <2>3, EngineKeepsInv, Zenon DEF EngineStep
    <2>4. CASE UNCHANGED pathVars
        <3>1. Extends
            BY <2>4 DEF Extends, pathVars, busVars
        <3> QED BY <2>1, <3>1, SourceKeepsEngine, Zenon
    <2> QED BY <2>2, <2>3, <2>4, Zenon DEF PathNext
<1>3. SourceInv /\ StreamOK /\ EngineInv => PathInv
    BY DEF PathInv, WorkInv
<1> QED BY <1>1, <1>2, <1>3, SourceInvariance, StreamIsOK, PTL DEF PathSpec

-----------------------------------------------------------------------------
\* The publisher's batching, its ticker and its flush at the end, and the two
\* sources beside it, repeat and forget no event, for every batch size and
\* wherever a publish fails.
THEOREM EventInOnePlace == PathSpec => []EveryEventIsInOnePlace
<1>1. SourceInv => EveryEventIsInOnePlace
    <2> SUFFICES ASSUME SourceInv PROVE EveryEventIsInOnePlace
        OBVIOUS
    <2>1. \A m, n \in DOMAIN stream : \A i \in DOMAIN stream[m], j \in DOMAIN stream[n] :
            stream[m][i] = stream[n][j] => m = n /\ i = j
        BY StreamIsOK, Zenon DEF StreamOK
    <2> QED BY <2>1, Zenon DEF EveryEventIsInOnePlace, SourceInv, Accounted, Sized
<1> QED BY <1>1, SourceInvariance, PTL

\* The worker's one ack for a batch loses no event, for any number of
\* replicas, of deliveries and of failures half-way through a batch.
THEOREM AckedScored == PathSpec => []AckedIsScored
<1>1. PathInv => AckedIsScored
    <2> SUFFICES ASSUME WorkInv, NEW m \in DOMAIN stream, answer[m] = "acked",
                        NEW e \in Events(stream[m])
                 PROVE  Scored(e)
        BY Zenon DEF AckedIsScored, PathInv
    <2>1. m \in MessageId
        BY DEF WorkInv, StreamOK
    <2>2. AllScored(m)
        BY <2>1, Zenon DEF WorkInv, EngineInv, AnswersOK
    <2> QED BY <2>2, Zenon DEF AllScored, Events
<1> QED BY <1>1, PathInvariance, PTL

\* The worker publishes at most one score of an event per delivery of its
\* message, although a late replica may work on beside its successor.
THEOREM ScoredOncePerDelivery == PathSpec => []OneScorePerDelivery
<1>1. PathInv => OneScorePerDelivery
    BY DEF PathInv, WorkInv, EngineInv, ScoresOK, PerDelivery, OneScorePerDelivery, Events
<1> QED BY <1>1, PathInvariance, PTL
=============================================================================
