----------------------- MODULE StockAndDeliveryProofs -----------------------
(***************************************************************************)
(* Proofs about the two tables every inventory request writes in one        *)
(* transaction: the outbox (EventDelivery) and the stock (Inventory).  Each *)
(* is proved about on its own.                                              *)
(*                                                                         *)
(* Delivery, for any number of events, jobs and faults, any batch limit and *)
(* any capacity of the client's memory: PublishedHonestly follows from what *)
(* a job has done with its batch, and from an account of every event handed *)
(* to Redis.  StaleOnlyIfMissed follows the event further: it is shown,     *)
(* missed, or still on its way.                                             *)
(*                                                                         *)
(* Stock, for any number of requests, products and receipts of any length:  *)
(* requests in flight hold different rows and keys, so what each has read   *)
(* and staged stays true until it commits.                                  *)
(***************************************************************************)
EXTENDS EventDelivery, Inventory, SequenceTheorems, FiniteSetTheorems, WellFoundedInduction,
        TLAPS

\* What a job has still to do and what it has sent are different rows of its batch.
BatchesSplit ==
    \A w \in Worker :
       /\ batch[w] \subseteq rows
       /\ todo[w] \subseteq batch[w] /\ sent[w] \subseteq batch[w]
       /\ todo[w] \cap sent[w] = {}
       /\ \A e \in sent[w] : sends[e] > 0

\* An event that was handed to Redis is marked, about to be marked by the job
\* that sent it, or its repetition is due to a failure.
HandedIsAccounted ==
    \A e \in EventId : sends[e] > 0 =>
       e \in rows /\ (e \in resend \/ e \in published \/ \E w \in Worker : e \in sent[w])

\* What is on its way was committed, and what the deduplicator knows is shown.
OnTheWay ==
    ToSet(channel) \subseteq rows /\ ToSet(wire) \subseteq rows /\ ToSet(seen) \subseteq view

\* A connected client that has refetched shows what was handed to Redis, or
\* it is on its way, or the bridge missed it.
Tracked ==
    socket = "up" /\ ~resync =>
       \A e \in EventId : sends[e] > 0 =>
          e \in view \/ e \in missed \/ e \in ToSet(channel) \/ e \in ToSet(wire)

DeliveryInv ==
    /\ PublishedHonestly
    /\ BatchesSplit
    /\ HandedIsAccounted
    /\ OnTheWay
    /\ Tracked

-----------------------------------------------------------------------------
(* Sequences and the oldest row of a batch.                                 *)

Before == {p \in Nat \X Nat : p[1] < p[2]}

\* A job always comes to a row of its own batch next.
LEMMA MinFacts ==
    ASSUME NEW S, S \subseteq EventId, S # {}
    PROVE  Min(S) \in S
  <1>1. IsWellFoundedOn(Before, Nat)
    <2>1. Before = OpToRel(<, Nat)
      BY Zenon DEF OpToRel, Before
    <2>2. QED
      BY <2>1, NatLessThanWellFounded, Zenon
  <1>2. S \subseteq Nat
    BY DEF EventId
  <1>3. PICK x \in S : \A y \in S : <<y, x>> \notin Before
    BY <1>1, <1>2, WFMin
  <1>4. \A y \in S : x <= y
    <2> SUFFICES ASSUME NEW y \in S, y < x PROVE FALSE
      BY <1>2
    <2>1. <<y, x>> \in Before
      BY <1>2 DEF Before
    <2>2. QED
      BY <1>3, <2>1
  <1>5. QED
    BY <1>4 DEF Min

\* The elements of a queue when one is added.
LEMMA AppendFacts ==
    ASSUME NEW S, NEW q \in Seq(S), NEW e \in S
    PROVE  /\ Append(q, e) \in Seq(S)
           /\ ToSet(Append(q, e)) = ToSet(q) \cup {e}
           /\ Len(Append(q, e)) = Len(q) + 1
  BY AppendProperties DEF ToSet

\* And when the first is taken.
LEMMA TailFacts ==
    ASSUME NEW S, NEW q \in Seq(S), q # <<>>
    PROVE  /\ Tail(q) \in Seq(S) /\ Head(q) \in S
           /\ ToSet(q) = {Head(q)} \cup ToSet(Tail(q))
           /\ Len(Tail(q)) = Len(q) - 1 /\ Len(q) > 0
  <1>1. /\ Tail(q) \in Seq(S) /\ Head(q) \in S
        /\ Len(Tail(q)) = Len(q) - 1 /\ Len(q) \in Nat /\ Len(q) > 0
        /\ DOMAIN q = 1 .. Len(q) /\ DOMAIN Tail(q) = 1 .. Len(q) - 1
        /\ \A i \in 1 .. Len(q) - 1 : Tail(q)[i] = q[i + 1]
        /\ Head(q) = q[1]
    BY EmptySeq, LenProperties, HeadTailProperties
  <1>2. ToSet(q) \subseteq {Head(q)} \cup ToSet(Tail(q))
    <2> SUFFICES ASSUME NEW i \in 1 .. Len(q), i # 1
                 PROVE  q[i] \in ToSet(Tail(q))
      BY <1>1 DEF ToSet
    <2>1. i - 1 \in 1 .. Len(q) - 1 /\ (i - 1) + 1 = i
      BY <1>1
    <2>2. Tail(q)[i - 1] = q[i]
      BY <1>1, <2>1
    <2>3. QED
      BY <1>1, <2>1, <2>2 DEF ToSet
  <1>3. {Head(q)} \cup ToSet(Tail(q)) \subseteq ToSet(q)
    <2>1. ASSUME NEW i \in 1 .. Len(q) - 1 PROVE Tail(q)[i] \in ToSet(q)
      <3>1. i + 1 \in 1 .. Len(q)
        BY <1>1
      <3>2. QED
        BY <1>1, <3>1 DEF ToSet
    <2>2. Head(q) \in ToSet(q)
      BY <1>1 DEF ToSet
    <2>3. QED
      BY <1>1, <2>1, <2>2 DEF ToSet
  <1>4. QED
    BY <1>1, <1>2, <1>3

\* The empty queue.
LEMMA EmptyFacts == ToSet(<<>>) = {} /\ \A S : <<>> \in Seq(S)
  BY DEF ToSet

-----------------------------------------------------------------------------
(* The outbox and its jobs.                                                 *)

\* The types of a job's three sets, one by one.
LEMMA JobTypes ==
    ASSUME TypeOK
    PROVE  /\ batch \in [Worker -> SUBSET EventId]
           /\ todo \in [Worker -> SUBSET EventId]
           /\ sent \in [Worker -> SUBSET EventId]
  BY DEF TypeOK

\* Initially nothing was committed, taken or sent.
LEMMA InitInv == Init => DeliveryInv
  <1> SUFFICES ASSUME Init PROVE DeliveryInv
    OBVIOUS
  <1>1. TypeOK
    <2>1. \A f \in {batch, todo, sent} : f \in [Worker -> SUBSET EventId]
      BY DEF Init
    <2>2. Len(seen) <= Capacity
      BY DeliveryAssumption, EmptySeq DEF Init
    <2>3. QED
      BY <2>1, <2>2, EmptyFacts DEF Init, TypeOK
  <1>2. OnTheWay
    BY EmptyFacts DEF Init, OnTheWay
  <1>3. QED
    BY <1>1, <1>2 DEF DeliveryInv, PublishedHonestly, Init, JobsDisjoint, MarkedMeansSent,
                      ResentOnlyAfterFailure, BatchesSplit, HandedIsAccounted, Tracked

\* A new row is in nobody's hands.
LEMMA CommitChangeInv ==
    ASSUME DeliveryInv, NEW e \in EventId, CommitChange(e)
    PROVE  DeliveryInv'
  <1> USE DEF DeliveryInv, PublishedHonestly, CommitChange
  <1>1. TypeOK'
    BY DEF TypeOK, bridgeVars, clientVars
  <1>2. JobsDisjoint' /\ MarkedMeansSent' /\ ResentOnlyAfterFailure'
    BY DEF JobsDisjoint, MarkedMeansSent, ResentOnlyAfterFailure
  <1>3. BatchesSplit' /\ HandedIsAccounted'
    BY DEF BatchesSplit, HandedIsAccounted
  <1>4. OnTheWay' /\ Tracked'
    BY DEF OnTheWay, Tracked, bridgeVars, clientVars
  <1>5. QED
    BY <1>1, <1>2, <1>3, <1>4

\* The rows a job takes are committed, unmarked and in no other job's hands.
LEMMA SelectedFacts ==
    /\ Selected \subseteq rows \ published
    /\ \A w \in Worker : Selected \cap batch[w] = {}
  BY DEF Selected, First, Locked

LEMMA TakeInv ==
    ASSUME DeliveryInv, NEW w \in Worker, Take(w)
    PROVE  DeliveryInv'
  <1> USE DEF DeliveryInv, PublishedHonestly
  <1>1. /\ batch' = [batch EXCEPT ![w] = Selected]
        /\ todo' = [todo EXCEPT ![w] = Selected]
        /\ batch[w] = {}
        /\ UNCHANGED <<rows, published, sent, sends, resend, subscribed, channel, missed,
                       socket, wire, resync, seen, view, faults>>
    BY DEF Take, bridgeVars, clientVars
  <1>2. Selected \subseteq rows \ published /\ \A v \in Worker : Selected \cap batch[v] = {}
    BY SelectedFacts
  <1>3. TypeOK'
    <2>1. batch' \in [Worker -> SUBSET EventId] /\ todo' \in [Worker -> SUBSET EventId]
      BY <1>1, <1>2, JobTypes DEF TypeOK
    <2>2. \A f \in {batch', todo', sent'} : f \in [Worker -> SUBSET EventId]
      BY <1>1, <2>1, JobTypes
    <2>3. QED
      BY <1>1, <2>2 DEF TypeOK, EventId
  <1>4. JobsDisjoint' /\ BatchesSplit'
    <2>1. sent[w] = {}
      BY <1>1 DEF BatchesSplit
    <2>2. QED
      BY <1>1, <1>2, <2>1, JobTypes DEF JobsDisjoint, BatchesSplit
  <1>5. MarkedMeansSent' /\ ResentOnlyAfterFailure' /\ HandedIsAccounted'
    BY <1>1 DEF MarkedMeansSent, ResentOnlyAfterFailure, HandedIsAccounted, EventId
  <1>6. OnTheWay' /\ Tracked'
    BY <1>1 DEF OnTheWay, Tracked, EventId
  <1>7. QED
    BY <1>3, <1>4, <1>5, <1>6

\* An event that is handed to Redis is queued for the bridge or missed.
LEMMA HandOverFacts ==
    ASSUME TypeOK, OnTheWay, NEW e \in rows, HandOver(e)
    PROVE  /\ sends' \in [EventId -> Nat]
           /\ sends' = [sends EXCEPT ![e] = sends[e] + 1]
           /\ channel' \in Seq(EventId) /\ ToSet(channel') \subseteq rows
           /\ missed' \subseteq EventId
           /\ missed \subseteq missed' /\ ToSet(channel) \subseteq ToSet(channel')
           /\ e \in missed' \/ e \in ToSet(channel')
  <1>1. e \in EventId
    BY DEF TypeOK
  <1>2. CASE subscribed
    <2>1. channel' = Append(channel, e) /\ missed' = missed
      BY <1>2 DEF HandOver
    <2>2. channel' \in Seq(EventId) /\ ToSet(channel') = ToSet(channel) \cup {e}
      BY <1>1, <2>1, AppendFacts DEF TypeOK
    <2>3. QED
      BY <1>1, <2>1, <2>2 DEF HandOver, TypeOK, OnTheWay
  <1>3. CASE ~subscribed
    BY <1>1, <1>3 DEF HandOver, TypeOK, OnTheWay
  <1>4. QED
    BY <1>2, <1>3

\* A row that a job comes to was not handed over before, but for a failure.
LEMMA FirstTime ==
    ASSUME DeliveryInv, NEW w \in Worker, NEW e \in todo[w]
    PROVE  /\ e \in rows /\ e \in EventId /\ e \notin published
           /\ \A v \in Worker : e \notin sent[v]
           /\ e \in resend \/ sends[e] = 0
  <1> USE DEF DeliveryInv, PublishedHonestly
  <1>1. e \in batch[w] /\ e \in rows /\ e \in EventId /\ e \notin sent[w]
    BY DEF BatchesSplit, TypeOK
  <1>2. e \notin published /\ \A v \in Worker \ {w} : e \notin batch[v]
    BY <1>1 DEF JobsDisjoint
  <1>3. \A v \in Worker : e \notin sent[v]
    BY <1>1, <1>2 DEF BatchesSplit
  <1>4. sends[e] \in Nat
    BY <1>1 DEF TypeOK
  <1>5. QED
    BY <1>1, <1>2, <1>3, <1>4 DEF HandedIsAccounted

\* The successful call moves the row from what is to do to what was sent.
LEMMA PublishInv ==
    ASSUME DeliveryInv, NEW w \in Worker, Publish(w)
    PROVE  DeliveryInv'
  <1> USE DEF DeliveryInv, PublishedHonestly
  <1> DEFINE e == Min(todo[w])
  <1>1. /\ todo[w] # {} /\ HandOver(e)
        /\ todo' = [todo EXCEPT ![w] = todo[w] \ {e}]
        /\ sent' = [sent EXCEPT ![w] = sent[w] \cup {e}]
        /\ UNCHANGED <<rows, published, batch, resend, subscribed,
                       socket, wire, resync, seen, view, faults>>
    BY DEF Publish, clientVars
  <1>2. e \in todo[w]
    BY <1>1, MinFacts, JobTypes
  <1> HIDE DEF e
  <1>3. /\ e \in rows /\ e \in EventId /\ e \notin published
        /\ \A v \in Worker : e \notin sent[v]
        /\ e \in resend \/ sends[e] = 0
    BY <1>2, FirstTime
  <1>4. /\ sends' \in [EventId -> Nat]
        /\ sends' = [sends EXCEPT ![e] = sends[e] + 1]
        /\ channel' \in Seq(EventId) /\ ToSet(channel') \subseteq rows
        /\ missed' \subseteq EventId
        /\ missed \subseteq missed' /\ ToSet(channel) \subseteq ToSet(channel')
        /\ e \in missed' \/ e \in ToSet(channel')
    BY <1>1, <1>3, HandOverFacts
  <1>5. sends[e] \in Nat /\ sends'[e] = sends[e] + 1 /\ \A d \in EventId \ {e} : sends'[d] = sends[d]
    BY <1>3, <1>4 DEF TypeOK
  <1>6. TypeOK'
    <2>1. todo' \in [Worker -> SUBSET EventId] /\ sent' \in [Worker -> SUBSET EventId]
      BY <1>1, <1>3, JobTypes
    <2>2. \A f \in {batch', todo', sent'} : f \in [Worker -> SUBSET EventId]
      BY <1>1, <2>1, JobTypes
    <2>3. QED
      BY <1>1, <1>4, <2>2 DEF TypeOK, EventId
  <1>7. JobsDisjoint'
    BY <1>1 DEF JobsDisjoint
  <1>8. MarkedMeansSent' /\ ResentOnlyAfterFailure'
    <2>1. MarkedMeansSent'
      <3> SUFFICES ASSUME NEW d \in published PROVE sends'[d] > 0
        BY <1>1 DEF MarkedMeansSent
      <3>1. d # e /\ d \in EventId /\ sends[d] > 0
        BY <1>3 DEF MarkedMeansSent, TypeOK
      <3>2. QED
        BY <1>5, <3>1
    <2>2. ResentOnlyAfterFailure'
      <3> SUFFICES ASSUME NEW d \in EventId, sends'[d] > 1 PROVE d \in resend
        BY <1>1 DEF ResentOnlyAfterFailure, EventId
      <3>1. QED
        BY <1>3, <1>5 DEF ResentOnlyAfterFailure
    <2>3. QED
      BY <2>1, <2>2
  <1>9. BatchesSplit'
    <2> SUFFICES ASSUME NEW v \in Worker
                 PROVE  /\ batch'[v] \subseteq rows'
                        /\ todo'[v] \subseteq batch'[v] /\ sent'[v] \subseteq batch'[v]
                        /\ todo'[v] \cap sent'[v] = {}
                        /\ \A d \in sent'[v] : sends'[d] > 0
      BY DEF BatchesSplit
    <2>1. CASE v = w
      BY <1>1, <1>2, <1>3, <1>5, <2>1, JobTypes DEF BatchesSplit
    <2>2. CASE v # w
      BY <1>1, <1>3, <1>5, <2>2, JobTypes DEF BatchesSplit
    <2>3. QED
      BY <2>1, <2>2
  <1>10. HandedIsAccounted'
    BY <1>1, <1>3, <1>5, JobTypes DEF HandedIsAccounted, EventId
  <1>11. OnTheWay' /\ Tracked'
    BY <1>1, <1>4, <1>5 DEF OnTheWay, Tracked, EventId
  <1>12. QED
    BY <1>6, <1>7, <1>8, <1>9, <1>10, <1>11

\* A failed call leaves the row unsent, and accounts for it if Redis took it.
LEMMA PublishFailsInv ==
    ASSUME DeliveryInv, NEW w \in Worker, PublishFails(w)
    PROVE  DeliveryInv'
  <1> USE DEF DeliveryInv, PublishedHonestly
  <1> DEFINE e == Min(todo[w])
  <1>1. /\ todo[w] # {}
        /\ todo' = [todo EXCEPT ![w] = todo[w] \ {e}]
        /\ faults' = faults + 1
        /\ UNCHANGED <<rows, published, batch, sent, subscribed,
                       socket, wire, resync, seen, view>>
        /\ \/ HandOver(e) /\ resend' = resend \cup {e}
           \/ UNCHANGED <<sends, channel, missed, resend>>
    BY DEF PublishFails, Fault, clientVars
  <1>2. e \in todo[w]
    BY <1>1, MinFacts, JobTypes
  <1> HIDE DEF e
  <1>3. e \in rows /\ e \in EventId /\ e \notin published
    BY <1>2, FirstTime
  <1>4. /\ sends' \in [EventId -> Nat]
        /\ channel' \in Seq(EventId) /\ ToSet(channel') \subseteq rows
        /\ resend' \subseteq EventId /\ resend \subseteq resend'
        /\ missed' \subseteq EventId
        /\ missed \subseteq missed' /\ ToSet(channel) \subseteq ToSet(channel')
        /\ \A d \in EventId : \/ sends'[d] = sends[d]
                              \/ /\ d \in rows /\ d \in resend'
                                 /\ sends'[d] = sends[d] + 1
                                 /\ d \in missed' \/ d \in ToSet(channel')
    <2>1. CASE HandOver(e) /\ resend' = resend \cup {e}
      BY <1>3, <2>1, HandOverFacts DEF TypeOK
    <2>2. CASE UNCHANGED <<sends, channel, missed, resend>>
      BY <2>2 DEF TypeOK, OnTheWay
    <2>3. QED
      BY <1>1, <2>1, <2>2
  <1>5. TypeOK'
    <2>1. todo' \in [Worker -> SUBSET EventId]
      BY <1>1, JobTypes
    <2>2. \A f \in {batch', todo', sent'} : f \in [Worker -> SUBSET EventId]
      BY <1>1, <2>1, JobTypes
    <2>3. QED
      BY <1>1, <1>4, <2>2 DEF TypeOK, EventId
  <1>6. JobsDisjoint'
    BY <1>1 DEF JobsDisjoint
  <1>7. MarkedMeansSent' /\ ResentOnlyAfterFailure' /\ HandedIsAccounted'
    <2>1. \A d \in EventId : sends[d] \in Nat
      BY DEF TypeOK
    <2>2. MarkedMeansSent'
      <3> SUFFICES ASSUME NEW d \in published PROVE sends'[d] > 0
        BY <1>1 DEF MarkedMeansSent
      <3>1. d \in EventId /\ sends[d] > 0
        BY DEF MarkedMeansSent, TypeOK
      <3>2. QED
        BY <1>4, <2>1, <3>1
    <2>3. ResentOnlyAfterFailure'
      <3> SUFFICES ASSUME NEW d \in EventId, sends'[d] > 1 PROVE d \in resend'
        BY DEF ResentOnlyAfterFailure, EventId
      <3>1. QED
        BY <1>4, <2>1 DEF ResentOnlyAfterFailure
    <2>4. HandedIsAccounted'
      <3> SUFFICES ASSUME NEW d \in EventId, sends'[d] > 0
                   PROVE  d \in rows /\ (d \in resend' \/ d \in published
                                          \/ \E v \in Worker : d \in sent[v])
        BY <1>1 DEF HandedIsAccounted, EventId
      <3>1. QED
        BY <1>4, <2>1 DEF HandedIsAccounted
    <2>5. QED
      BY <2>2, <2>3, <2>4
  <1>8. BatchesSplit'
    <2> SUFFICES ASSUME NEW v \in Worker
                 PROVE  /\ todo'[v] \subseteq todo[v]
                        /\ \A d \in sent[v] : sends'[d] > 0
      BY <1>1 DEF BatchesSplit
    <2>1. todo'[v] \subseteq todo[v]
      BY <1>1, JobTypes
    <2>2. ASSUME NEW d \in sent[v] PROVE sends'[d] > 0
      <3>1. d \in EventId /\ sends[d] > 0
        BY JobTypes DEF BatchesSplit
      <3>2. sends[d] \in Nat
        BY <3>1 DEF TypeOK
      <3>3. QED
        BY <1>4, <3>1, <3>2
    <2>3. QED
      BY <2>1, <2>2
  <1>9. OnTheWay' /\ Tracked'
    BY <1>1, <1>4 DEF OnTheWay, Tracked, EventId
  <1>10. QED
    BY <1>5, <1>6, <1>7, <1>8, <1>9

\* The rows a job marks are those it has sent.
LEMMA CommitBatchInv ==
    ASSUME DeliveryInv, NEW w \in Worker, CommitBatch(w)
    PROVE  DeliveryInv'
  <1> USE DEF DeliveryInv, PublishedHonestly
  <1>1. /\ published' = published \cup sent[w]
        /\ batch' = [batch EXCEPT ![w] = {}]
        /\ todo' = [todo EXCEPT ![w] = {}]
        /\ sent' = [sent EXCEPT ![w] = {}]
        /\ UNCHANGED <<rows, sends, resend, subscribed, channel, missed,
                       socket, wire, resync, seen, view, faults>>
    BY DEF CommitBatch, Release, bridgeVars, clientVars
  <1>2. sent[w] \subseteq batch[w] /\ batch[w] \subseteq rows
    BY DEF BatchesSplit
  <1>3. TypeOK'
    <2>1. \A f \in {batch', todo', sent'} : f \in [Worker -> SUBSET EventId]
      BY <1>1, JobTypes
    <2>2. QED
      BY <1>1, <1>2, <2>1 DEF TypeOK, EventId
  <1>4. JobsDisjoint'
    BY <1>1, <1>2, JobTypes DEF JobsDisjoint
  <1>5. MarkedMeansSent' /\ ResentOnlyAfterFailure' /\ BatchesSplit'
    BY <1>1, JobTypes DEF MarkedMeansSent, ResentOnlyAfterFailure, BatchesSplit, EventId
  <1>6. HandedIsAccounted'
    BY <1>1, JobTypes DEF HandedIsAccounted, EventId
  <1>7. OnTheWay' /\ Tracked'
    BY <1>1 DEF OnTheWay, Tracked, EventId
  <1>8. QED
    BY <1>3, <1>4, <1>5, <1>6, <1>7

\* What a lost job had sent may be sent again.
LEMMA WorkerLostInv ==
    ASSUME DeliveryInv, NEW w \in Worker, WorkerLost(w)
    PROVE  DeliveryInv'
  <1> USE DEF DeliveryInv, PublishedHonestly
  <1>1. /\ resend' = resend \cup sent[w]
        /\ batch' = [batch EXCEPT ![w] = {}]
        /\ todo' = [todo EXCEPT ![w] = {}]
        /\ sent' = [sent EXCEPT ![w] = {}]
        /\ faults' = faults + 1
        /\ UNCHANGED <<rows, published, sends, subscribed, channel, missed,
                       socket, wire, resync, seen, view>>
    BY DEF WorkerLost, Release, Fault, bridgeVars, clientVars
  <1>2. TypeOK'
    <2>1. \A f \in {batch', todo', sent'} : f \in [Worker -> SUBSET EventId]
      BY <1>1, JobTypes
    <2>2. QED
      <3>1. resend' \subseteq EventId /\ faults' \in Nat
        BY <1>1, JobTypes DEF TypeOK
      <3>2. QED
        BY <1>1, <2>1, <3>1 DEF TypeOK, EventId
  <1>3. JobsDisjoint' /\ BatchesSplit'
    BY <1>1, JobTypes DEF JobsDisjoint, BatchesSplit
  <1>4. MarkedMeansSent' /\ ResentOnlyAfterFailure' /\ HandedIsAccounted'
    BY <1>1, JobTypes DEF MarkedMeansSent, ResentOnlyAfterFailure, HandedIsAccounted, EventId
  <1>5. OnTheWay' /\ Tracked'
    BY <1>1 DEF OnTheWay, Tracked, EventId
  <1>6. QED
    BY <1>2, <1>3, <1>4, <1>5

-----------------------------------------------------------------------------
(* The bridge and the client.  They leave the outbox and its jobs alone.    *)

LEMMA OutboxKept ==
    ASSUME DeliveryInv, UNCHANGED <<outboxVars, sends, resend>>
    PROVE  /\ JobsDisjoint' /\ MarkedMeansSent' /\ ResentOnlyAfterFailure'
           /\ BatchesSplit' /\ HandedIsAccounted'
           /\ \A f \in {batch', todo', sent'} : f \in [Worker -> SUBSET EventId]
  <1> USE DEF DeliveryInv, PublishedHonestly, outboxVars
  <1>1. JobsDisjoint' /\ MarkedMeansSent' /\ ResentOnlyAfterFailure'
    BY DEF JobsDisjoint, MarkedMeansSent, ResentOnlyAfterFailure, EventId
  <1>2. BatchesSplit' /\ HandedIsAccounted'
    BY DEF BatchesSplit, HandedIsAccounted, EventId
  <1>3. QED
    BY <1>1, <1>2, JobTypes

\* What the bridge had queued is missed when it goes down.
LEMMA BridgeInv ==
    ASSUME DeliveryInv, BridgeDown \/ BridgeUp
    PROVE  DeliveryInv'
  <1> USE DEF DeliveryInv, PublishedHonestly
  <1>1. CASE BridgeDown
    <2>1. /\ missed' = missed \cup ToSet(channel) /\ channel' = <<>>
          /\ subscribed' = FALSE /\ faults' = faults + 1
          /\ UNCHANGED <<outboxVars, sends, resend, socket, wire, resync, seen, view>>
      BY <1>1 DEF BridgeDown, Fault, clientVars
    <2>2. TypeOK'
      <3>1. ToSet(channel) \subseteq EventId
        BY DEF OnTheWay, TypeOK
      <3>2. missed' \subseteq EventId /\ channel' \in Seq(EventId) /\ faults' \in Nat
        BY <2>1, <3>1, EmptyFacts DEF TypeOK
      <3>3. QED
        BY <2>1, <3>2, OutboxKept DEF TypeOK, EventId, outboxVars
    <2>3. OnTheWay' /\ Tracked'
      BY <2>1, EmptyFacts DEF OnTheWay, Tracked, EventId, outboxVars
    <2>4. QED
      BY <2>1, <2>2, <2>3, OutboxKept
  <1>2. CASE BridgeUp
    <2>1. /\ subscribed' = TRUE
          /\ UNCHANGED <<outboxVars, sends, resend, channel, missed, faults,
                         socket, wire, resync, seen, view>>
      BY <1>2 DEF BridgeUp, clientVars
    <2>2. TypeOK'
      BY <2>1, OutboxKept DEF TypeOK, EventId, outboxVars
    <2>3. OnTheWay' /\ Tracked'
      BY <2>1 DEF OnTheWay, Tracked, EventId, outboxVars
    <2>4. QED
      BY <2>1, <2>2, <2>3, OutboxKept
  <1>3. QED
    BY <1>1, <1>2

\* A forwarded event is on the wire of a socket that is up.
LEMMA ForwardInv ==
    ASSUME DeliveryInv, Forward
    PROVE  DeliveryInv'
  <1> USE DEF DeliveryInv, PublishedHonestly
  <1>1. /\ channel # <<>> /\ channel' = Tail(channel)
        /\ wire' = IF socket = "up" THEN Append(wire, Head(channel)) ELSE wire
        /\ UNCHANGED <<outboxVars, sends, resend, subscribed, missed, socket, resync,
                       seen, view, faults>>
    BY DEF Forward
  <1>2. /\ Tail(channel) \in Seq(EventId) /\ Head(channel) \in EventId
        /\ ToSet(channel) = {Head(channel)} \cup ToSet(Tail(channel))
    BY <1>1, TailFacts DEF TypeOK
  <1>3. /\ wire' \in Seq(EventId)
        /\ ToSet(wire) \subseteq ToSet(wire')
        /\ ToSet(wire') \subseteq ToSet(wire) \cup {Head(channel)}
        /\ socket = "up" => Head(channel) \in ToSet(wire')
    <2>1. /\ Append(wire, Head(channel)) \in Seq(EventId)
          /\ ToSet(Append(wire, Head(channel))) = ToSet(wire) \cup {Head(channel)}
      BY <1>2, AppendFacts DEF TypeOK
    <2>2. QED
      BY <1>1, <2>1 DEF TypeOK
  <1>4. TypeOK'
    BY <1>1, <1>2, <1>3, OutboxKept DEF TypeOK, EventId, outboxVars
  <1>5. OnTheWay'
    BY <1>1, <1>2, <1>3 DEF OnTheWay, outboxVars
  <1>6. Tracked'
    BY <1>1, <1>2, <1>3 DEF Tracked, EventId
  <1>7. QED
    BY <1>1, <1>4, <1>5, <1>6, OutboxKept

\* Until a client that connects has refetched, nothing is promised to it.
LEMMA ConnectionInv ==
    ASSUME DeliveryInv, Connect \/ Break \/ Notice \/ Background
    PROVE  DeliveryInv'
  <1> USE DEF DeliveryInv, PublishedHonestly
  <1>1. /\ UNCHANGED <<outboxVars, sends, resend, subscribed, channel, missed, view>>
        /\ socket' \in {"down", "up", "dead"} /\ resync' \in BOOLEAN
        /\ socket' = "up" => resync'
        /\ wire' \in {wire, <<>>} /\ seen' \in {seen, <<>>}
        /\ faults' \in {faults, faults + 1}
    BY DEF TypeOK, Connect, Break, Notice, Background, Fault, bridgeVars
  <1>2. Len(seen') <= Capacity
    BY <1>1, DeliveryAssumption, EmptySeq DEF TypeOK
  <1>3. TypeOK'
    <2>1. wire' \in Seq(EventId) /\ seen' \in Seq(EventId)
      BY <1>1, EmptyFacts DEF TypeOK
    <2>2. faults' \in Nat
      BY <1>1 DEF TypeOK
    <2>3. QED
      BY <1>1, <1>2, <2>1, <2>2, OutboxKept DEF TypeOK, EventId, outboxVars
  <1>4. OnTheWay' /\ Tracked'
    BY <1>1, EmptyFacts DEF OnTheWay, Tracked, outboxVars
  <1>5. QED
    BY <1>1, <1>3, <1>4, OutboxKept

\* A full refetch shows every committed row, so everything handed to Redis.
LEMMA ResyncInv ==
    ASSUME DeliveryInv, Resync
    PROVE  DeliveryInv'
  <1> USE DEF DeliveryInv, PublishedHonestly
  <1>1. /\ resync' = FALSE /\ view' = rows /\ missed' = {}
        /\ UNCHANGED <<outboxVars, sends, resend, subscribed, channel, socket, wire,
                       seen, faults>>
    BY DEF Resync, bridgeVars
  <1>2. TypeOK'
    BY <1>1, OutboxKept DEF TypeOK, EventId, outboxVars
  <1>3. OnTheWay'
    BY <1>1 DEF OnTheWay, TypeOK, outboxVars
  <1>4. Tracked'
    BY <1>1 DEF Tracked, HandedIsAccounted, EventId
  <1>5. QED
    BY <1>1, <1>2, <1>3, <1>4, OutboxKept

\* The deduplicator stays within its capacity and learns at most the new id.
LEMMA RememberFacts ==
    ASSUME TypeOK, NEW e \in EventId
    PROVE  /\ Remember(e) \in Seq(EventId) /\ Len(Remember(e)) <= Capacity
           /\ ToSet(Remember(e)) \subseteq ToSet(seen) \cup {e}
  <1>1. seen \in Seq(EventId) /\ Len(seen) \in Nat /\ Len(seen) <= Capacity
    BY LenProperties DEF TypeOK
  <1>2. CASE Len(seen) < Capacity
    BY <1>1, <1>2, AppendFacts, DeliveryAssumption DEF Remember
  <1>3. CASE ~(Len(seen) < Capacity)
    <2>1. seen # <<>>
      BY <1>1, <1>3, DeliveryAssumption, EmptySeq
    <2>2. /\ Tail(seen) \in Seq(EventId) /\ Len(Tail(seen)) = Len(seen) - 1
          /\ ToSet(Tail(seen)) \subseteq ToSet(seen)
      BY <1>1, <2>1, TailFacts
    <2>3. /\ Append(Tail(seen), e) \in Seq(EventId)
          /\ ToSet(Append(Tail(seen), e)) = ToSet(Tail(seen)) \cup {e}
          /\ Len(Append(Tail(seen), e)) = Len(Tail(seen)) + 1
      BY <2>2, AppendFacts
    <2>4. QED
      BY <1>1, <1>3, <2>2, <2>3, DeliveryAssumption DEF Remember
  <1>4. QED
    BY <1>2, <1>3

\* A received event is shown, now or since it was first received.
LEMMA ReceiveInv ==
    ASSUME DeliveryInv, Receive
    PROVE  DeliveryInv'
  <1> USE DEF DeliveryInv, PublishedHonestly
  <1> DEFINE e == Head(wire)
  <1>1. /\ wire # <<>> /\ wire' = Tail(wire)
        /\ UNCHANGED <<outboxVars, sends, resend, subscribed, channel, missed, socket,
                       resync, faults>>
        /\ \/ e \in ToSet(seen) /\ UNCHANGED <<seen, view>>
           \/ seen' = Remember(e) /\ view' = view \cup {e}
    BY DEF Receive, bridgeVars
  <1>2. /\ Tail(wire) \in Seq(EventId) /\ e \in EventId
        /\ ToSet(wire) = {e} \cup ToSet(Tail(wire))
    BY <1>1, TailFacts DEF TypeOK
  <1> HIDE DEF e
  <1>3. /\ view \subseteq view' /\ e \in view' /\ view' \subseteq rows
        /\ seen' \in Seq(EventId) /\ Len(seen') <= Capacity /\ ToSet(seen') \subseteq view'
    <2>1. CASE e \in ToSet(seen) /\ UNCHANGED <<seen, view>>
      BY <2>1 DEF TypeOK, OnTheWay
    <2>2. CASE seen' = Remember(e) /\ view' = view \cup {e}
      BY <1>2, <2>2, RememberFacts DEF TypeOK, OnTheWay
    <2>3. QED
      BY <1>1, <2>1, <2>2
  <1>4. TypeOK'
    BY <1>1, <1>2, <1>3, OutboxKept DEF TypeOK, EventId, outboxVars
  <1>5. OnTheWay'
    BY <1>1, <1>2, <1>3 DEF OnTheWay, outboxVars
  <1>6. Tracked'
    BY <1>1, <1>2, <1>3 DEF Tracked, EventId
  <1>7. QED
    BY <1>1, <1>4, <1>5, <1>6, OutboxKept

-----------------------------------------------------------------------------
(* The theorems.                                                            *)

\* Every step preserves the invariant.
LEMMA StepInv == DeliveryInv /\ [Next]_vars => DeliveryInv'
  <1> SUFFICES ASSUME DeliveryInv, [Next]_vars PROVE DeliveryInv'
    OBVIOUS
  <1>1. ASSUME NEW e \in EventId, CommitChange(e) PROVE DeliveryInv'
    BY <1>1, CommitChangeInv
  <1>2. ASSUME NEW w \in Worker, JobStep(w) \/ PublishFails(w) \/ WorkerLost(w)
        PROVE  DeliveryInv'
    BY <1>2, TakeInv, PublishInv, CommitBatchInv, PublishFailsInv, WorkerLostInv DEF JobStep
  <1>3. CASE DeliveryStep
    BY <1>3, BridgeInv, ForwardInv, ResyncInv, ReceiveInv, ConnectionInv DEF DeliveryStep
  <1>4. CASE BridgeDown \/ Break \/ Background
    BY <1>4, BridgeInv, ConnectionInv
  <1>5. CASE UNCHANGED vars
    <2>1. UNCHANGED <<outboxVars, sends, resend, subscribed, channel, missed, socket, wire,
                      resync, seen, view, faults>>
      BY <1>5 DEF vars, bridgeVars, clientVars
    <2>2. TypeOK'
      BY <2>1, OutboxKept DEF DeliveryInv, PublishedHonestly, TypeOK, EventId, outboxVars
    <2>3. OnTheWay' /\ Tracked'
      BY <2>1 DEF DeliveryInv, OnTheWay, Tracked, EventId, outboxVars
    <2>4. QED
      BY <2>1, <2>2, <2>3, OutboxKept DEF DeliveryInv, PublishedHonestly
  <1>6. QED
    BY <1>1, <1>2, <1>3, <1>4, <1>5 DEF Next

\* The inductive invariant of publication and delivery.
THEOREM DeliveryInvariant == Spec => []DeliveryInv
  BY InitInv, StepInv, PTL DEF Spec

\* Overlapping jobs never hold one row, a row is marked as published only after
\* Redis took it, and it is handed over again only after a failure
\* (publish_batch with FOR UPDATE SKIP LOCKED).
THEOREM OutboxIsHonest == Spec => []PublishedHonestly
  <1>1. DeliveryInv => PublishedHonestly
    BY DEF DeliveryInv
  <1>2. QED
    BY <1>1, DeliveryInvariant, PTL

\* A connected client to which everything has arrived shows every change but
\* those that were published while the bridge was not subscribed.
THEOREM QuietClientIsCurrent == Spec => []StaleOnlyIfMissed
  <1>1. DeliveryInv => StaleOnlyIfMissed
    <2> SUFFICES ASSUME DeliveryInv, Quiet, rows = published, NEW e \in rows,
                        e \notin view
                 PROVE  e \in missed
      BY DEF StaleOnlyIfMissed
    <2>1. sends[e] > 0 /\ e \in EventId
      BY DEF DeliveryInv, PublishedHonestly, MarkedMeansSent, TypeOK
    <2>2. QED
      BY <2>1, EmptyFacts DEF DeliveryInv, Tracked, Quiet
  <1>2. QED
    BY <1>1, DeliveryInvariant, PTL

-----------------------------------------------------------------------------
(* The stock: what a request in flight relies on.                           *)

Map(S, T) == UNION {[D -> T] : D \in SUBSET S}
Barcodes == Barcode \cup {NoBarcode}
LedgerEvent == [key : (Receipt \cup EventKey) \X Nat, sku : Sku, delta : Int, after : 0..MaxStock]

Booking == [pc : {"booking"}, receipt : Receipt, rows : SUBSET Sku, line : Nat \ {0},
            created : SUBSET Sku, index : Map(Sku, Barcodes), barcodes : Map(Sku, Barcodes),
            stock : Map(Sku, 0..MaxStock), events : SUBSET LedgerEvent]
Scanning == [pc : {"scan"}, cards : SUBSET [proposal : Nat, status : {"FAILED"}],
             seeded : SUBSET Sku, todo : SUBSET Sku]

FiniteUnits(S) == IsFiniteSet(Received(S)) /\ IsFiniteSet(Removed(S))
EventsFor(S, s) == {e \in S : e.sku = s}
InStock(s) == IF s \in DOMAIN stock THEN stock[s] ELSE 0

\* The locks a request holds, and the requests that work on a receipt.
Products(t) == IF t.pc = "booking" THEN t.rows \cup t.created ELSE {}
Stocks(t) == CASE t.pc = "booking" -> DOMAIN t.stock
               [] t.pc = "event" -> {t.event.sku}
               [] OTHER -> {}
Confirming == {"reserved", "listed", "booking"}

\* Two requests in flight lock different rows and have different keys.
Compatible(t, u) ==
    /\ Products(t) \cap Products(u) = {} /\ Stocks(t) \cap Stocks(u) = {}
    /\ t.pc \in Confirming /\ u.pc \in Confirming => t.receipt # u.receipt
    /\ t.pc = "event" /\ u.pc = "event" => t.event.key # u.event.key

\* An event about to be committed still fits the stock and has a new key.
EventSound(t) ==
    /\ t.event \in LedgerEvent /\ t.event.key[1] \in EventKey
    /\ t.event.sku \in DOMAIN stock /\ t.event.after = stock[t.event.sku] + t.event.delta
    /\ \A e \in ledger : e.key # t.event.key

NamedSoFar(t, s, b) ==
    \E i \in 1..(t.line - 1) : Lines[t.receipt][i].sku = s /\ Lines[t.receipt][i].barcode = b

\* What the lines booked so far have done to the barcodes: a product indexed
\* twice was so before, and one that got a barcode was named with it while no
\* listed product had it.
BarcodesSound(t) ==
    /\ \A s, u \in DOMAIN t.index :
         s # u /\ t.index[s] = t.index[u] /\ t.index[s] # NoBarcode => s \in t.rows /\ u \in t.rows
    /\ \A s \in DOMAIN t.barcodes : t.barcodes[s] \notin {NoBarcode, t.index[s]} =>
         /\ NamedSoFar(t, s, t.barcodes[s])
         /\ \A u \in t.rows \ {s} : t.index[u] # t.barcodes[s]
    /\ \A s \in t.created : t.index[s] # NoBarcode => NamedSoFar(t, s, t.index[s])

\* The locked rows are as they were read, the new ones are still new.
RowsLocked(t) ==
    /\ t.rows \subseteq DOMAIN products /\ \A s \in t.rows : t.index[s] = products[s]
    /\ t.created \cap DOMAIN products = {} /\ DOMAIN t.index = t.rows \cup t.created
    /\ t.created \subseteq DOMAIN t.barcodes /\ DOMAIN t.barcodes \subseteq DOMAIN t.index
    /\ DOMAIN t.stock = DOMAIN t.barcodes

\* The lines booked so far are one event each, and the stock is counted on.
LinesBooked(t) ==
    /\ t.line <= Len(Lines[t.receipt]) + 1
    /\ IsFiniteSet(t.events) /\ Cardinality(t.events) = t.line - 1 /\ FiniteUnits(t.events)
    /\ \A e \in t.events : e.key[1] = t.receipt /\ e.key[2] < t.line /\ e.sku \in DOMAIN t.stock
    /\ \A s \in DOMAIN t.stock : t.stock[s] = InStock(s) + Total(EventsFor(t.events, s))

TxSound(t) ==
    /\ t.pc \in {"idle", "event", "scan"} \cup Confirming
    /\ t.pc = "event" => EventSound(t)
    /\ t.pc \in Confirming => t.receipt \in Receipt /\ t.receipt \notin answers
    /\ t.pc = "listed" => t.rows \subseteq DOMAIN products
    /\ t.pc = "booking" => t \in Booking /\ RowsLocked(t) /\ LinesBooked(t) /\ BarcodesSound(t)
    /\ t.pc = "scan" => t \in Scanning /\ \A c \in t.cards : c.proposal \in DOMAIN proposals

TxsSound ==
    /\ DOMAIN tx = Session /\ \A w \in Session : TxSound(tx[w])
    /\ \A v, w \in Session : v # w => Compatible(tx[v], tx[w])

Proposals == Seq([sku : Sku, status : {"PENDING", "DECIDED"}])

TablesSound ==
    /\ products \in Map(Sku, Barcodes) /\ stock \in Map(Sku, 0..MaxStock)
    /\ DOMAIN stock = DOMAIN products
    /\ ledger \subseteq LedgerEvent /\ FiniteUnits(ledger)
    /\ \A e \in ledger : e.sku \in DOMAIN stock /\ (e.key[1] \in Receipt => e.key[1] \in answers)
    /\ answers \subseteq Receipt /\ alerts \subseteq {e.key : e \in ledger}

ScansSound ==
    /\ proposals \in Proposals /\ sales \subseteq Sku
    /\ \A c \in cards : c.proposal \in DOMAIN proposals

InventoryInv ==
    /\ TablesSound
    /\ ScansSound
    /\ TxsSound
    /\ StockMatchesLedger
    /\ ReceiptBookedOnce
    /\ SharedBarcodeExplained
    /\ DuplicateOnlyIfCrowded

-----------------------------------------------------------------------------
(* Partial maps and units.                                                  *)

\* The entries of a map.
LEMMA MapFacts ==
    ASSUME NEW S, NEW T, NEW f \in Map(S, T)
    PROVE  DOMAIN f \subseteq S /\ \A x \in DOMAIN f : f[x] \in T
  BY DEF Map

\* A function with its entries in the right sets is a map.
LEMMA MapIntro ==
    ASSUME NEW S, NEW T, NEW D, D \subseteq S, NEW f, f \in [D -> T]
    PROVE  f \in Map(S, T)
  BY DEF Map

\* The map without entries.
LEMMA EmptyMap == DOMAIN <<>> = {} /\ \A S, T : <<>> \in Map(S, T)
  <1>1. DOMAIN <<>> = {}
    OBVIOUS
  <1>2. ASSUME NEW S, NEW T PROVE <<>> \in Map(S, T)
    <2>1. <<>> \in [{} -> T]
      BY <1>1
    <2> QED BY <2>1, MapIntro
  <1> QED BY <1>1, <1>2

\* A map stays one with another entry.
LEMMA PutMap ==
    ASSUME NEW S, NEW T, NEW f \in Map(S, T), NEW k \in S, NEW v \in T
    PROVE  Put(f, k, v) \in Map(S, T)
  <1>1. DOMAIN f \cup {k} \subseteq S /\ \A x \in DOMAIN f : f[x] \in T
    BY MapFacts
  <1>2. Put(f, k, v) \in [DOMAIN f \cup {k} -> T]
    BY <1>1 DEF Put
  <1> QED BY <1>1, <1>2, MapIntro

\* The entries of two maps.
LEMMA OverlayFacts ==
    ASSUME NEW S, NEW T, NEW f \in Map(S, T), NEW g \in Map(S, T)
    PROVE  /\ Overlay(f, g) \in Map(S, T) /\ DOMAIN Overlay(f, g) = DOMAIN f \cup DOMAIN g
           /\ \A x \in DOMAIN g : Overlay(f, g)[x] = g[x]
           /\ \A x \in DOMAIN f \ DOMAIN g : Overlay(f, g)[x] = f[x]
  <1>1. /\ DOMAIN f \cup DOMAIN g \subseteq S
        /\ \A x \in DOMAIN f : f[x] \in T
        /\ \A x \in DOMAIN g : g[x] \in T
    BY MapFacts
  <1>2. Overlay(f, g) \in [DOMAIN f \cup DOMAIN g -> T]
    BY <1>1 DEF Overlay
  <1>3. Overlay(f, g) \in Map(S, T)
    BY <1>1, <1>2, MapIntro
  <1> QED BY <1>2, <1>3 DEF Overlay

\* No events bring no units.
LEMMA NoUnits == FiniteUnits({}) /\ Total({}) = 0
  <1>1. Received({}) = {} /\ Removed({}) = {}
    BY DEF Received, Removed
  <1>2. IsFiniteSet({}) /\ Cardinality({}) = 0
    BY FS_EmptySet
  <1> QED BY <1>1, <1>2 DEF FiniteUnits, Total

\* The units of one event are as many as its delta says.
LEMMA UnitsOfOne ==
    ASSUME NEW e, e.delta \in Int
    PROVE  FiniteUnits({e}) /\ Total({e}) = e.delta
  <1>1. PICK d \in Int : d = e.delta
    OBVIOUS
  <1>2. Received({e}) = {e} \X (1..d) /\ Removed({e}) = {e} \X (1..(-d))
    BY <1>1 DEF Received, Removed
  <1>3. IsFiniteSet({e}) /\ Cardinality({e}) = 1
    BY FS_Singleton
  <1>4. IsFiniteSet(1..d) /\ Cardinality(1..d) = IF 1 > d THEN 0 ELSE d - 1 + 1
    BY FS_Interval
  <1>5. -d \in Int
    OBVIOUS
  <1>6. IsFiniteSet(1..(-d)) /\ Cardinality(1..(-d)) = IF 1 > -d THEN 0 ELSE (-d) - 1 + 1
    BY <1>5, FS_Interval
  <1>7. IsFiniteSet({e} \X (1..d)) /\ Cardinality({e} \X (1..d)) = Cardinality({e}) * Cardinality(1..d)
    BY <1>3, <1>4, FS_Product
  <1>8. /\ IsFiniteSet({e} \X (1..(-d)))
        /\ Cardinality({e} \X (1..(-d))) = Cardinality({e}) * Cardinality(1..(-d))
    BY <1>3, <1>6, FS_Product
  <1>9. Cardinality({e} \X (1..d)) = IF 1 > d THEN 0 ELSE d
    BY <1>3, <1>4, <1>7
  <1>10. Cardinality({e} \X (1..(-d))) = IF 1 > -d THEN 0 ELSE -d
    BY <1>3, <1>6, <1>8
  <1>11. FiniteUnits({e})
    BY <1>2, <1>7, <1>8 DEF FiniteUnits
  <1>12. Total({e}) = (IF 1 > d THEN 0 ELSE d) - (IF 1 > -d THEN 0 ELSE -d)
    BY <1>2, <1>9, <1>10 DEF Total
  <1>13. (IF 1 > d THEN 0 ELSE d) - (IF 1 > -d THEN 0 ELSE -d) = d
    OBVIOUS
  <1> QED BY <1>1, <1>11, <1>12, <1>13

\* Fewer events have fewer units.
LEMMA UnitsOfSubset ==
    ASSUME NEW S, NEW T, S \subseteq T, FiniteUnits(T)
    PROVE  FiniteUnits(S)
  <1>1. Received(S) \in SUBSET Received(T) /\ Removed(S) \in SUBSET Removed(T)
    BY DEF Received, Removed
  <1>2. IsFiniteSet(Received(S))
    BY <1>1, FS_Subset DEF FiniteUnits
  <1>3. IsFiniteSet(Removed(S))
    BY <1>1, FS_Subset DEF FiniteUnits
  <1> QED BY <1>2, <1>3 DEF FiniteUnits

\* Different events have different units.
LEMMA UnitsApart ==
    ASSUME NEW S, NEW T, S \cap T = {}
    PROVE  /\ Received(S \cup T) = Received(S) \cup Received(T) /\ Received(S) \cap Received(T) = {}
           /\ Removed(S \cup T) = Removed(S) \cup Removed(T) /\ Removed(S) \cap Removed(T) = {}
  <1>1. \A x, U : x \in Received(U) => x[1] \in U
    BY DEF Received
  <1>2. \A x, U : x \in Removed(U) => x[1] \in U
    BY DEF Removed
  <1>3. Received(S) \cap Received(T) = {}
    BY <1>1
  <1>4. Removed(S) \cap Removed(T) = {}
    BY <1>2
  <1>5. Received(S \cup T) = Received(S) \cup Received(T)
    BY DEF Received
  <1>6. Removed(S \cup T) = Removed(S) \cup Removed(T)
    BY DEF Removed
  <1> QED BY <1>3, <1>4, <1>5, <1>6

\* The units of different events add up.
LEMMA UnitsAdd ==
    ASSUME NEW S, NEW T, S \cap T = {}, FiniteUnits(S), FiniteUnits(T)
    PROVE  /\ FiniteUnits(S \cup T) /\ Total(S \cup T) = Total(S) + Total(T)
           /\ Total(S) \in Int /\ Total(T) \in Int
  <1>1. PICK A, B, C, D : A = Received(S) /\ B = Received(T) /\ C = Removed(S) /\ D = Removed(T)
    OBVIOUS
  <1>2. IsFiniteSet(A) /\ IsFiniteSet(B) /\ IsFiniteSet(C) /\ IsFiniteSet(D)
    BY <1>1 DEF FiniteUnits
  <1>3. /\ A \cap B = {} /\ C \cap D = {}
        /\ Received(S \cup T) = A \cup B /\ Removed(S \cup T) = C \cup D
    BY <1>1, UnitsApart
  <1>4. Cardinality({}) = 0
    BY FS_EmptySet
  <1>5. /\ IsFiniteSet(A \cup B)
        /\ Cardinality(A \cup B) = Cardinality(A) + Cardinality(B) - Cardinality(A \cap B)
    BY <1>2, FS_Union
  <1>6. /\ IsFiniteSet(C \cup D)
        /\ Cardinality(C \cup D) = Cardinality(C) + Cardinality(D) - Cardinality(C \cap D)
    BY <1>2, FS_Union
  <1>7. Cardinality(A) \in Nat /\ Cardinality(B) \in Nat /\ Cardinality(C) \in Nat /\ Cardinality(D) \in Nat
    BY <1>2, FS_CardinalityType
  <1>8. /\ Total(S) = Cardinality(A) - Cardinality(C) /\ Total(T) = Cardinality(B) - Cardinality(D)
        /\ Total(S \cup T) = Cardinality(A \cup B) - Cardinality(C \cup D)
    BY <1>1, <1>3 DEF Total
  <1>9. Total(S \cup T) = Total(S) + Total(T) /\ Total(S) \in Int /\ Total(T) \in Int
    <2>1. PICK a, b, c, d \in Nat : /\ a = Cardinality(A) /\ b = Cardinality(B)
                                    /\ c = Cardinality(C) /\ d = Cardinality(D)
      BY <1>7
    <2>2. Cardinality(A \cap B) = 0 /\ Cardinality(C \cap D) = 0
      BY <1>3, <1>4
    <2>3. Cardinality(A \cup B) = a + b - 0
      BY <1>5, <2>1, <2>2
    <2>4. Cardinality(C \cup D) = c + d - 0
      BY <1>6, <2>1, <2>2
    <2>5. Total(S) = a - c /\ Total(T) = b - d /\ Total(S \cup T) = (a + b - 0) - (c + d - 0)
      BY <1>8, <2>1, <2>3, <2>4
    <2> QED BY <2>5
  <1>10. FiniteUnits(S \cup T)
    BY <1>3, <1>5, <1>6 DEF FiniteUnits
  <1> QED BY <1>9, <1>10

-----------------------------------------------------------------------------
(* Requests in flight.                                                      *)

\* The constants have their types.
LEMMA StockConstants ==
    /\ DOMAIN Lines = Receipt /\ \A r \in Receipt : Lines[r] \in Seq(Line)
    /\ NoBarcode \notin Barcode /\ Stocked \subseteq Sku /\ Receipt \cap EventKey = {}
    /\ MaxStock \in Nat /\ ReorderPoint \in Nat
  BY InventoryAssumption

\* A line of a receipt.
LEMMA LineFacts ==
    ASSUME NEW r \in Receipt, NEW i \in 1..Len(Lines[r])
    PROVE  /\ Lines[r][i] \in Line /\ Lines[r][i].sku \in Sku /\ Lines[r][i].barcode \in Barcodes
           /\ Lines[r][i].quantity \in Nat \ {0} /\ Len(Lines[r]) \in Nat
           /\ DOMAIN Lines[r] = 1..Len(Lines[r])
  <1>1. Lines[r] \in Seq(Line)
    BY StockConstants
  <1>2. Lines[r][i] \in Line
    BY <1>1, ElementOfSeq
  <1>3. Len(Lines[r]) \in Nat /\ DOMAIN Lines[r] = 1..Len(Lines[r])
    BY <1>1, LenProperties
  <1> QED BY <1>2, <1>3 DEF Line, Barcodes

\* Two requests are compatible whichever is looked at first.
LEMMA CompatibleEither ==
    ASSUME NEW t, NEW u, Compatible(t, u)
    PROVE  Compatible(u, t)
  BY DEF Compatible

\* A request that has ended holds nothing.
LEMMA IdleFacts == TxSound(Idle) /\ TxSound(Idle)' /\ \A u : Compatible(u, Idle)
  <1>1. Idle.pc = "idle"
    BY DEF Idle
  <1>2. Products(Idle) = {} /\ Stocks(Idle) = {}
    BY <1>1 DEF Products, Stocks
  <1>3. TxSound(Idle) /\ TxSound(Idle)'
    BY <1>1 DEF TxSound, Confirming
  <1>4. \A u : Compatible(u, Idle)
    BY <1>1, <1>2 DEF Compatible, Confirming
  <1> QED BY <1>3, <1>4

\* A request relies on the rows it has locked and on its keys.
LEMMA TxKept ==
    ASSUME NEW t, TxSound(t),
           DOMAIN products \subseteq DOMAIN products',
           \A s \in Products(t) : /\ s \in DOMAIN products' => s \in DOMAIN products
                                  /\ s \in DOMAIN products => products'[s] = products[s],
           \A s \in Stocks(t) : InStock(s)' = InStock(s) /\ (s \in DOMAIN stock => s \in DOMAIN stock'),
           t.pc \in Confirming => t.receipt \notin answers',
           t.pc = "event" => \A e \in ledger' : e.key # t.event.key,
           DOMAIN proposals \subseteq DOMAIN proposals'
    PROVE  TxSound(t)'
  <1>1. t.pc = "event" => EventSound(t)'
    <2> SUFFICES ASSUME t.pc = "event" PROVE EventSound(t)'
      OBVIOUS
    <2>1. EventSound(t) /\ t.event.sku \in Stocks(t)
      BY DEF TxSound, Stocks
    <2>2. t.event.sku \in DOMAIN stock' /\ stock'[t.event.sku] = stock[t.event.sku]
      BY <2>1 DEF EventSound, InStock
    <2> QED BY <2>1, <2>2 DEF EventSound
  <1>2. t.pc = "booking" => RowsLocked(t)' /\ LinesBooked(t)' /\ BarcodesSound(t)'
    <2> SUFFICES ASSUME t.pc = "booking" PROVE RowsLocked(t)' /\ LinesBooked(t)' /\ BarcodesSound(t)'
      OBVIOUS
    <2>1. RowsLocked(t) /\ LinesBooked(t) /\ BarcodesSound(t)
      BY DEF TxSound
    <2>2. Products(t) = t.rows \cup t.created /\ Stocks(t) = DOMAIN t.stock
      BY DEF Products, Stocks
    <2>3. RowsLocked(t)'
      BY <2>1, <2>2 DEF RowsLocked
    <2>4. LinesBooked(t)'
      BY <2>1, <2>2 DEF LinesBooked
    <2>5. BarcodesSound(t)'
      BY <2>1 DEF BarcodesSound, NamedSoFar
    <2> QED BY <2>3, <2>4, <2>5
  <1> QED BY <1>1, <1>2 DEF TxSound

\* One request moves on and the others are kept.
LEMMA TxsStep ==
    ASSUME TxsSound, NEW w \in Session, NEW X, tx' = [tx EXCEPT ![w] = X], TxSound(X)',
           \A v \in Session \ {w} : \A t : t = tx[v] => TxSound(t)',
           \A v \in Session \ {w} : Compatible(tx[v], X)
    PROVE  TxsSound'
  <1>1. DOMAIN tx = Session
    BY DEF TxsSound
  <1>2. DOMAIN tx' = Session /\ tx'[w] = X /\ \A v \in Session \ {w} : tx'[v] = tx[v]
    BY <1>1
  <1>3. ASSUME NEW v \in Session PROVE TxSound(tx[v])'
    <2>1. CASE v = w
      <3>1. (X = tx[v])'
        BY <1>2, <2>1
      <3> QED BY <3>1
    <2>2. CASE v # w
      <3>1. PICK t : t = tx[v]
        OBVIOUS
      <3>2. TxSound(t)'
        BY <2>2, <3>1
      <3>3. (t = tx[v])'
        BY <1>2, <2>2, <3>1
      <3> QED BY <3>2, <3>3
    <2> QED BY <2>1, <2>2
  <1>4. ASSUME NEW u \in Session, NEW v \in Session, u # v PROVE Compatible(tx'[u], tx'[v])
    <2>1. CASE u # w /\ v # w
      BY <1>2, <1>4, <2>1 DEF TxsSound
    <2>2. CASE v = w
      BY <1>2, <1>4, <2>2
    <2>3. CASE u = w
      BY <1>2, <1>4, <2>3, CompatibleEither
    <2> QED BY <2>1, <2>2, <2>3
  <1> QED BY <1>2, <1>3, <1>4 DEF TxsSound

\* A request moves on and changes no table, whether or not it counts as a scan.
LEMMA QuietTables ==
    ASSUME InventoryInv, NEW w \in Session, NEW X, tx' = [tx EXCEPT ![w] = X],
           UNCHANGED <<stockVars, sales, proposals, cards, crowded>>, TxSound(X),
           \A v \in Session \ {w} : Compatible(tx[v], X)
    PROVE  InventoryInv'
  <1>1. /\ UNCHANGED products /\ UNCHANGED stock /\ UNCHANGED ledger /\ UNCHANGED alerts
        /\ UNCHANGED answers /\ UNCHANGED phantom /\ UNCHANGED sales /\ UNCHANGED proposals
        /\ UNCHANGED cards /\ UNCHANGED crowded
    BY DEF stockVars
  <1>2. \A s : InStock(s)' = InStock(s)
    BY <1>1 DEF InStock
  <1>3. ASSUME NEW t, TxSound(t) PROVE TxSound(t)'
    <2>1. /\ t.pc \in Confirming => t.receipt \notin answers'
          /\ t.pc = "event" => \A e \in ledger' : e.key # t.event.key
      BY <1>1, <1>3 DEF TxSound, EventSound
    <2> QED BY <1>1, <1>2, <1>3, <2>1, TxKept
  <1>4. TxsSound'
    <2>1. TxsSound /\ TxSound(X)'
      BY <1>3 DEF InventoryInv
    <2>2. \A v \in Session \ {w} : \A t : t = tx[v] => TxSound(t)'
      BY <1>3, <2>1 DEF TxsSound
    <2> QED BY <2>1, <2>2, TxsStep
  <1>5. TablesSound' /\ ScansSound'
    BY <1>1 DEF InventoryInv, TablesSound, ScansSound
  <1>6. StockMatchesLedger' /\ ReceiptBookedOnce'
    BY <1>1 DEF InventoryInv, StockMatchesLedger, ReceiptBookedOnce, EventsOf
  <1>7. SharedBarcodeExplained' /\ DuplicateOnlyIfCrowded'
    BY <1>1 DEF InventoryInv, SharedBarcodeExplained, DuplicateOnlyIfCrowded, Pending
  <1> QED BY <1>4, <1>5, <1>6, <1>7 DEF InventoryInv

\* A request moves on and changes nothing else.
LEMMA QuietRequest ==
    ASSUME InventoryInv, NEW w \in Session, NEW X, tx' = [tx EXCEPT ![w] = X],
           UNCHANGED <<stockVars, scanVars>>, TxSound(X),
           \A v \in Session \ {w} : Compatible(tx[v], X)
    PROVE  InventoryInv'
  <1>1. UNCHANGED <<stockVars, sales, proposals, cards, crowded>>
    BY DEF scanVars
  <1> QED BY <1>1, QuietTables

\* The store starts with empty tables and nothing in flight.
LEMMA StockInit == InventoryInit => InventoryInv
  <1> SUFFICES ASSUME InventoryInit PROVE InventoryInv
    OBVIOUS
  <1>1. TablesSound
    <2>1. products \in Map(Sku, Barcodes)
      <3>1. products \in [Stocked -> Barcodes]
        BY DEF InventoryInit, Barcodes
      <3> QED BY <3>1, StockConstants, MapIntro
    <2>2. stock \in Map(Sku, 0..MaxStock)
      <3>1. stock \in [Stocked -> 0..MaxStock]
        BY StockConstants DEF InventoryInit
      <3> QED BY <3>1, StockConstants, MapIntro
    <2>3. FiniteUnits(ledger)
      BY NoUnits DEF InventoryInit
    <2> QED BY <2>1, <2>2, <2>3 DEF InventoryInit, TablesSound
  <1>2. ScansSound
    <2>1. proposals \in Proposals
      BY EmptySeq DEF InventoryInit, Proposals
    <2> QED BY <2>1 DEF InventoryInit, ScansSound
  <1>3. TxsSound
    <2>1. DOMAIN tx = Session /\ \A w \in Session : tx[w] = Idle
      BY DEF InventoryInit
    <2> QED BY <2>1, IdleFacts DEF TxsSound
  <1>4. StockMatchesLedger
    <2>1. ASSUME NEW s \in DOMAIN stock PROVE stock[s] = Total({e \in ledger : e.sku = s})
      <3>1. stock[s] = 0 /\ {e \in ledger : e.sku = s} = {}
        BY DEF InventoryInit
      <3> QED BY <3>1, NoUnits
    <2> QED BY <2>1 DEF StockMatchesLedger
  <1>5. ReceiptBookedOnce
    <2>1. ASSUME NEW r \in Receipt
          PROVE  Cardinality(EventsOf(r)) = IF r \in answers THEN Len(Lines[r]) ELSE 0
      <3>1. EventsOf(r) = {} /\ r \notin answers
        BY DEF InventoryInit, EventsOf
      <3>2. Cardinality({}) = 0
        BY FS_EmptySet
      <3> QED BY <3>1, <3>2
    <2> QED BY <2>1 DEF ReceiptBookedOnce
  <1>6. SharedBarcodeExplained
    BY DEF InventoryInit, SharedBarcodeExplained
  <1>7. DuplicateOnlyIfCrowded
    <2>1. Pending = {}
      BY DEF InventoryInit, Pending
    <2> QED BY <2>1 DEF DuplicateOnlyIfCrowded
  <1> QED BY <1>1, <1>2, <1>3, <1>4, <1>5, <1>6, <1>7 DEF InventoryInv

\* The locks of the model are those of the requests in flight.
LEMMA LocksHeld == \A v : LockedProducts(v) = Products(tx[v]) /\ LockedStock(v) = Stocks(tx[v])
  BY DEF LockedProducts, LockedStock, Products, Stocks

\* A request in flight is sound and compatible with the others.
LEMMA InFlight ==
    ASSUME InventoryInv, NEW w \in Session
    PROVE  /\ TxSound(tx[w]) /\ DOMAIN tx = Session
           /\ \A v \in Session \ {w} : Compatible(tx[v], tx[w])
  BY DEF InventoryInv, TxsSound

\* An event is applied to a locked row and waits for its commit.
LEMMA ReadEventInv ==
    ASSUME InventoryInv, NEW w \in Session, NEW sku \in Sku, NEW delta \in {-1, 1},
           NEW key \in EventKey, ReadEvent(w, sku, delta, key)
    PROVE  InventoryInv'
  <1>1. PICK a : a = stock[sku] + delta
    OBVIOUS
  <1>2. PICK e : e = Event(key, 0, sku, delta, a)
    OBVIOUS
  <1>3. e.key = <<key, 0>> /\ e.sku = sku /\ e.delta = delta /\ e.after = a
    BY <1>2 DEF Event
  <1>4. PICK X : X = [pc |-> "event", event |-> e]
    OBVIOUS
  <1>5. X.pc = "event" /\ X.event = e
    BY <1>4
  <1>6. tx' = [tx EXCEPT ![w] = X] /\ UNCHANGED <<stockVars, scanVars>>
    BY <1>1, <1>2, <1>4 DEF ReadEvent
  <1>7. sku \in DOMAIN stock /\ a \in 0..MaxStock /\ \A d \in ledger : d.key # <<key, 0>>
    BY <1>1 DEF ReadEvent
  <1>8. TxSound(X)
    <2>1. e \in LedgerEvent
      BY <1>2, <1>7 DEF Event, LedgerEvent
    <2>2. e.key[1] \in EventKey
      BY <1>3
    <2>3. EventSound(X)
      BY <1>1, <1>3, <1>5, <1>7, <2>1, <2>2 DEF EventSound
    <2> QED BY <1>5, <2>3 DEF TxSound, Confirming
  <1>9. ASSUME NEW v \in Session \ {w} PROVE Compatible(tx[v], X)
    <2>1. Stocks(tx[v]) \cap {sku} = {} /\ (tx[v].pc = "event" => tx[v].event.key # <<key, 0>>)
      BY LocksHeld DEF ReadEvent, StockFree
    <2>2. Products(X) = {} /\ Stocks(X) = {sku}
      BY <1>3, <1>5 DEF Products, Stocks
    <2> QED BY <1>3, <1>5, <2>1, <2>2 DEF Compatible, Confirming
  <1> QED BY <1>6, <1>8, <1>9, QuietRequest

\* A request that is rolled back leaves nothing.
LEMMA AbortInv ==
    ASSUME InventoryInv, NEW w \in Session, Abort(w) \/ AbortScan(w)
    PROVE  InventoryInv'
  <1>1. tx' = [tx EXCEPT ![w] = Idle] /\ UNCHANGED <<stockVars, scanVars>>
    BY DEF Abort, AbortScan
  <1> QED BY <1>1, IdleFacts, QuietRequest

\* A confirmation reserves its key.
LEMMA BeginInv ==
    ASSUME InventoryInv, NEW w \in Session, NEW r \in Receipt, Begin(w, r)
    PROVE  InventoryInv'
  <1>1. PICK X : X = [pc |-> "reserved", receipt |-> r]
    OBVIOUS
  <1>2. X.pc = "reserved" /\ X.receipt = r
    BY <1>1
  <1>3. tx' = [tx EXCEPT ![w] = X] /\ UNCHANGED <<stockVars, scanVars>> /\ r \notin answers
    BY <1>1 DEF Begin
  <1>4. TxSound(X)
    BY <1>2, <1>3 DEF TxSound, Confirming
  <1>5. ASSUME NEW v \in Session \ {w} PROVE Compatible(tx[v], X)
    <2>1. tx[v].pc \in Confirming => tx[v].receipt # r
      BY DEF Begin, Confirming
    <2>2. Products(X) = {} /\ Stocks(X) = {}
      BY <1>2 DEF Products, Stocks
    <2> QED BY <1>2, <2>1, <2>2 DEF Compatible
  <1> QED BY <1>3, <1>4, <1>5, QuietRequest

\* It lists the products.
LEMMA ListProductsInv ==
    ASSUME InventoryInv, NEW w \in Session, ListProducts(w)
    PROVE  InventoryInv'
  <1>1. PICK D : D = DOMAIN products
    OBVIOUS
  <1>2. PICK r : r = tx[w].receipt
    OBVIOUS
  <1>3. PICK X : X = [pc |-> "listed", receipt |-> r, rows |-> D]
    OBVIOUS
  <1>4. X.pc = "listed" /\ X.receipt = r /\ X.rows = D
    BY <1>3
  <1>5. tx' = [tx EXCEPT ![w] = X] /\ UNCHANGED <<stockVars, scanVars>> /\ tx[w].pc \in Confirming
    BY <1>1, <1>2, <1>3 DEF ListProducts, Confirming
  <1>6. TxSound(X)
    BY <1>1, <1>2, <1>4, <1>5, InFlight DEF TxSound, Confirming
  <1>7. ASSUME NEW v \in Session \ {w} PROVE Compatible(tx[v], X)
    <2>1. tx[v].pc \in Confirming => tx[v].receipt # r
      BY <1>2, <1>5, InFlight DEF Compatible
    <2>2. Products(X) = {} /\ Stocks(X) = {}
      BY <1>4 DEF Products, Stocks
    <2> QED BY <1>4, <2>1, <2>2 DEF Compatible
  <1> QED BY <1>5, <1>6, <1>7, QuietRequest

\* It gets the locks and reads the rows it listed.
LEMMA LockProductsInv ==
    ASSUME InventoryInv, NEW w \in Session, LockProducts(w)
    PROVE  InventoryInv'
  <1>1. PICK r, D : r = tx[w].receipt /\ D = tx[w].rows
    OBVIOUS
  <1>2. PICK ix : ix = [s \in D |-> products[s]]
    OBVIOUS
  <1>3. PICK X : X = [pc |-> "booking", receipt |-> r, rows |-> D, line |-> 1, created |-> {},
                      index |-> ix, barcodes |-> <<>>, stock |-> <<>>, events |-> {}]
    OBVIOUS
  <1>4. /\ X.pc = "booking" /\ X.receipt = r /\ X.rows = D /\ X.line = 1 /\ X.created = {}
        /\ X.index = ix /\ X.barcodes = <<>> /\ X.stock = <<>> /\ X.events = {}
    BY <1>3
  <1>5. /\ tx' = [tx EXCEPT ![w] = X] /\ UNCHANGED <<stockVars, scanVars>>
        /\ tx[w].pc = "listed" /\ ProductsFree(w, D)
    BY <1>1, <1>2, <1>3 DEF LockProducts
  <1>6. r \in Receipt /\ r \notin answers /\ D \subseteq DOMAIN products
    BY <1>1, <1>5, InFlight DEF TxSound, Confirming
  <1>7. products \in Map(Sku, Barcodes)
    BY DEF InventoryInv, TablesSound
  <1>8. D \subseteq Sku /\ ix \in Map(Sku, Barcodes) /\ DOMAIN ix = D /\ \A s \in D : ix[s] = products[s]
    <2>1. D \subseteq Sku /\ \A s \in D : products[s] \in Barcodes
      BY <1>6, <1>7, MapFacts
    <2>2. ix \in [D -> Barcodes]
      BY <1>2, <2>1
    <2> QED BY <1>2, <2>1, <2>2, MapIntro
  <1>9. X \in Booking
    <2>1. <<>> \in Map(Sku, Barcodes) /\ <<>> \in Map(Sku, 0..MaxStock)
      BY EmptyMap
    <2> QED BY <1>3, <1>6, <1>8, <2>1 DEF Booking
  <1>10. RowsLocked(X)
    BY <1>4, <1>6, <1>8, EmptyMap DEF RowsLocked
  <1>11. LinesBooked(X)
    <2>1. IsFiniteSet({}) /\ Cardinality({}) = 0
      BY FS_EmptySet
    <2>2. Len(Lines[r]) \in Nat
      BY <1>6, StockConstants, LenProperties
    <2>3. X.line <= Len(Lines[X.receipt]) + 1 /\ X.line - 1 = 0
      BY <1>4, <2>2
    <2> QED BY <1>4, <2>1, <2>3, NoUnits, EmptyMap DEF LinesBooked
  <1>12. BarcodesSound(X)
    BY <1>4, <1>8, EmptyMap DEF BarcodesSound
  <1>13. TxSound(X)
    BY <1>4, <1>6, <1>9, <1>10, <1>11, <1>12 DEF TxSound, Confirming
  <1>14. ASSUME NEW v \in Session \ {w} PROVE Compatible(tx[v], X)
    <2>1. tx[v].pc \in Confirming => tx[v].receipt # r
      BY <1>1, <1>5, InFlight DEF Compatible, Confirming
    <2>2. Products(X) = D /\ Stocks(X) = {}
      BY <1>4, EmptyMap DEF Products, Stocks
    <2>3. Products(tx[v]) \cap D = {}
      BY <1>5, LocksHeld DEF ProductsFree
    <2> QED BY <1>4, <2>1, <2>2, <2>3 DEF Compatible
  <1> QED BY <1>5, <1>13, <1>14, QuietRequest

-----------------------------------------------------------------------------
(* Booking a line.                                                          *)

\* The product a line is booked on: a new one has the line's SKU and a barcode
\* no indexed product has; a known one that gets another barcode was found by
\* its SKU, and the barcode is nobody else's.
LEMMA ProductFacts ==
    ASSUME NEW ix, NEW l, Identifies(ix, l), NEW s, s = ProductOf(ix, l)
    PROVE  /\ s \notin DOMAIN ix => s = l.sku
           /\ l.barcode # NoBarcode /\ (s \in DOMAIN ix => ix[s] # l.barcode) =>
                s = l.sku /\ \A u \in DOMAIN ix : ix[u] # l.barcode
  <1>1. CASE Matches(ix, l) = {}
    <2>1. s = l.sku /\ BySku(ix, l) = {} /\ ByBarcode(ix, l) = {}
      BY <1>1 DEF ProductOf, Matches
    <2> QED BY <2>1 DEF ByBarcode
  <1>2. CASE Matches(ix, l) # {}
    <2>1. s \in Matches(ix, l)
      BY <1>2 DEF ProductOf
    <2>2. \A u \in Matches(ix, l) : u = s
      BY <2>1 DEF Identifies
    <2>3. s \in DOMAIN ix
      BY <2>1 DEF Matches, BySku, ByBarcode
    <2>4. ASSUME l.barcode # NoBarcode, ix[s] # l.barcode
          PROVE  s = l.sku /\ \A u \in DOMAIN ix : ix[u] # l.barcode
      <3>1. s \notin ByBarcode(ix, l)
        BY <2>4 DEF ByBarcode
      <3>2. ByBarcode(ix, l) = {}
        BY <2>2, <3>1 DEF Matches
      <3>3. s = l.sku
        BY <2>1, <3>1 DEF Matches, BySku
      <3> QED BY <2>4, <3>2, <3>3 DEF ByBarcode
    <2> QED BY <2>3, <2>4
  <1> QED BY <1>1, <1>2

\* The request after a line.
Booked(t, l, s, a, b) ==
    [t EXCEPT !.line = t.line + 1,
              !.created = t.created \cup ({s} \ DOMAIN t.index),
              !.index = IF s \in DOMAIN t.index THEN t.index ELSE Put(t.index, s, l.barcode),
              !.barcodes = Put(t.barcodes, s, b),
              !.stock = Put(t.stock, s, a),
              !.events = t.events \cup {Event(t.receipt, t.line, s, l.quantity, a)}]

\* What a line that may be booked is like.
LineFits(t, l, s, a, b) ==
    /\ t \in Booking /\ t.line <= Len(Lines[t.receipt]) /\ l = Lines[t.receipt][t.line]
    /\ Identifies(t.index, l) /\ s = ProductOf(t.index, l)
    /\ a = OnHand(t, s) + l.quantity /\ a <= MaxStock /\ b = BarcodeAfter(t, s, l)

\* The parts of the request after a line.
LEMMA BookedFields ==
    ASSUME NEW t \in Booking, NEW l, NEW s, NEW a, NEW b, NEW X, X = Booked(t, l, s, a, b)
    PROVE  /\ X.pc = "booking" /\ X.receipt = t.receipt /\ X.rows = t.rows
           /\ X.line = t.line + 1 /\ X.created = t.created \cup ({s} \ DOMAIN t.index)
           /\ X.index = IF s \in DOMAIN t.index THEN t.index ELSE Put(t.index, s, l.barcode)
           /\ X.barcodes = Put(t.barcodes, s, b) /\ X.stock = Put(t.stock, s, a)
           /\ X.events = t.events \cup {Event(t.receipt, t.line, s, l.quantity, a)}
  BY DEF Booking, Booked

\* Types of a line and its product.
LEMMA LineTypes ==
    ASSUME TablesSound, NEW t, NEW l, NEW s, NEW a, NEW b, LineFits(t, l, s, a, b)
    PROVE  /\ l.sku \in Sku /\ l.barcode \in Barcodes /\ l.quantity \in Nat \ {0}
           /\ s \in Sku /\ OnHand(t, s) \in Nat /\ a \in 0..MaxStock /\ b \in Barcodes
           /\ t.line \in Nat \ {0} /\ t.receipt \in Receipt
           /\ t.index \in Map(Sku, Barcodes) /\ t.barcodes \in Map(Sku, Barcodes)
           /\ t.stock \in Map(Sku, 0..MaxStock)
  <1>1. /\ t.line \in Nat \ {0} /\ t.receipt \in Receipt
        /\ t.index \in Map(Sku, Barcodes) /\ t.barcodes \in Map(Sku, Barcodes)
        /\ t.stock \in Map(Sku, 0..MaxStock)
    BY DEF LineFits, Booking
  <1>2. Len(Lines[t.receipt]) \in Nat
    BY <1>1, StockConstants, LenProperties
  <1>3. t.line \in 1..Len(Lines[t.receipt])
    BY <1>1, <1>2 DEF LineFits
  <1>4. l.sku \in Sku /\ l.barcode \in Barcodes /\ l.quantity \in Nat \ {0}
    BY <1>1, <1>3, LineFacts DEF LineFits
  <1>5. s \in Sku
    <2>1. s \in DOMAIN t.index \/ s = l.sku
      BY ProductFacts DEF LineFits
    <2> QED BY <1>1, <1>4, <2>1, MapFacts
  <1>6. OnHand(t, s) \in 0..MaxStock
    <2>1. \A x \in DOMAIN t.stock : t.stock[x] \in 0..MaxStock
      BY <1>1, MapFacts
    <2>2. \A x \in DOMAIN stock : stock[x] \in 0..MaxStock
      BY MapFacts DEF TablesSound
    <2>3. 0 \in 0..MaxStock
      BY StockConstants
    <2> QED BY <2>1, <2>2, <2>3 DEF OnHand
  <1>7. a \in 0..MaxStock
    BY <1>4, <1>6, StockConstants DEF LineFits
  <1>8. b \in Barcodes
    <2>1. \A x \in DOMAIN t.barcodes : t.barcodes[x] \in Barcodes
      BY <1>1, MapFacts
    <2>2. \A x \in DOMAIN t.index : t.index[x] \in Barcodes
      BY <1>1, MapFacts
    <2>3. NoBarcode \in Barcodes
      BY DEF Barcodes
    <2> QED BY <1>4, <2>1, <2>2, <2>3 DEF LineFits, BarcodeAfter
  <1>9. OnHand(t, s) \in Nat
    BY <1>6, StockConstants
  <1> QED BY <1>1, <1>4, <1>5, <1>7, <1>8, <1>9

\* The maps of the request after a line.
LEMMA BookedMaps ==
    ASSUME TablesSound, NEW t, NEW l, NEW s, NEW a, NEW b, LineFits(t, l, s, a, b),
           NEW X, X = Booked(t, l, s, a, b)
    PROVE  /\ X \in Booking
           /\ DOMAIN X.index = DOMAIN t.index \cup {s}
           /\ \A u \in DOMAIN t.index : X.index[u] = t.index[u]
           /\ s \notin DOMAIN t.index => X.index[s] = l.barcode
           /\ DOMAIN X.barcodes = DOMAIN t.barcodes \cup {s} /\ X.barcodes[s] = b
           /\ \A u \in DOMAIN t.barcodes : u # s => X.barcodes[u] = t.barcodes[u]
           /\ DOMAIN X.stock = DOMAIN t.stock \cup {s} /\ X.stock[s] = a
           /\ \A u \in DOMAIN t.stock : u # s => X.stock[u] = t.stock[u]
  <1>t. t \in Booking
    BY DEF LineFits
  <1>y. /\ l.barcode \in Barcodes /\ s \in Sku /\ a \in 0..MaxStock /\ b \in Barcodes
        /\ t.index \in Map(Sku, Barcodes) /\ t.barcodes \in Map(Sku, Barcodes)
        /\ t.stock \in Map(Sku, 0..MaxStock)
    BY LineTypes
  <1>1. /\ X.barcodes \in Map(Sku, Barcodes)
        /\ DOMAIN X.barcodes = DOMAIN t.barcodes \cup {s} /\ X.barcodes[s] = b
        /\ \A u \in DOMAIN t.barcodes : u # s => X.barcodes[u] = t.barcodes[u]
    <2>1. X.barcodes = Put(t.barcodes, s, b)
      BY <1>t, BookedFields
    <2>2. Put(t.barcodes, s, b) \in Map(Sku, Barcodes)
      BY <1>y, PutMap
    <2> QED BY <2>1, <2>2 DEF Put
  <1>2. /\ X.stock \in Map(Sku, 0..MaxStock)
        /\ DOMAIN X.stock = DOMAIN t.stock \cup {s} /\ X.stock[s] = a
        /\ \A u \in DOMAIN t.stock : u # s => X.stock[u] = t.stock[u]
    <2>1. X.stock = Put(t.stock, s, a)
      BY <1>t, BookedFields
    <2>2. Put(t.stock, s, a) \in Map(Sku, 0..MaxStock)
      BY <1>y, PutMap
    <2> QED BY <2>1, <2>2 DEF Put
  <1>3. /\ X.index \in Map(Sku, Barcodes)
        /\ DOMAIN X.index = DOMAIN t.index \cup {s}
        /\ \A u \in DOMAIN t.index : X.index[u] = t.index[u]
        /\ s \notin DOMAIN t.index => X.index[s] = l.barcode
    <2>1. CASE s \in DOMAIN t.index
      BY <1>t, <1>y, <2>1, BookedFields
    <2>2. CASE s \notin DOMAIN t.index
      <3>1. X.index = Put(t.index, s, l.barcode)
        BY <1>t, <2>2, BookedFields
      <3>2. /\ X.index \in Map(Sku, Barcodes) /\ DOMAIN X.index = DOMAIN t.index \cup {s}
            /\ X.index[s] = l.barcode
            /\ \A u \in DOMAIN t.index : u # s => X.index[u] = t.index[u]
        <4>1. Put(t.index, s, l.barcode) \in Map(Sku, Barcodes)
          BY <1>y, PutMap
        <4> QED BY <3>1, <4>1 DEF Put
      <3> QED BY <2>2, <3>2
    <2> QED BY <2>1, <2>2
  <1>4. X \in Booking
    <2>1. t.line + 1 \in Nat \ {0} /\ s \in Sku
      BY LineTypes
    <2>2. Event(t.receipt, t.line, s, l.quantity, a) \in LedgerEvent
      BY LineTypes DEF Event, LedgerEvent
    <2>3. t.created \cup ({s} \ DOMAIN t.index) \in SUBSET Sku
      BY <1>t, <2>1 DEF Booking
    <2>4. t.events \cup {Event(t.receipt, t.line, s, l.quantity, a)} \in SUBSET LedgerEvent
      BY <1>t, <2>2 DEF Booking
    <2>5. X.index = IF s \in DOMAIN t.index THEN t.index ELSE Put(t.index, s, l.barcode)
      BY <1>t, BookedFields
    <2>6. X.barcodes = Put(t.barcodes, s, b) /\ X.stock = Put(t.stock, s, a)
      BY <1>t, BookedFields
    <2> QED BY <1>t, <1>1, <1>2, <1>3, <2>1, <2>3, <2>4, <2>5, <2>6 DEF Booked, Booking
  <1> QED BY <1>1, <1>2, <1>3, <1>4

\* The rows stay locked, and a new product is nobody's.
LEMMA LineRows ==
    ASSUME TablesSound, NEW t, NEW l, NEW s, NEW a, NEW b, LineFits(t, l, s, a, b),
           NEW X, X = Booked(t, l, s, a, b), RowsLocked(t),
           s \in DOMAIN t.index \/ s \notin DOMAIN products
    PROVE  RowsLocked(X)
  <1>1. t \in Booking
    BY DEF LineFits
  <1>2. X.rows = t.rows /\ X.created = t.created \cup ({s} \ DOMAIN t.index)
    BY <1>1, BookedFields
  <1>3. /\ DOMAIN X.index = DOMAIN t.index \cup {s}
        /\ \A u \in DOMAIN t.index : X.index[u] = t.index[u]
        /\ DOMAIN X.barcodes = DOMAIN t.barcodes \cup {s}
        /\ DOMAIN X.stock = DOMAIN t.stock \cup {s}
    BY BookedMaps
  <1> QED BY <1>2, <1>3 DEF RowsLocked

\* The line is one more event, and its product is counted on.
LEMMA LineCounted ==
    ASSUME TablesSound, NEW t, NEW l, NEW s, NEW a, NEW b, LineFits(t, l, s, a, b),
           NEW X, X = Booked(t, l, s, a, b), LinesBooked(t)
    PROVE  LinesBooked(X)
  <1>1. t \in Booking
    BY DEF LineFits
  <1>2. PICK e : e = Event(t.receipt, t.line, s, l.quantity, a)
    OBVIOUS
  <1>3. X.receipt = t.receipt /\ X.line = t.line + 1 /\ X.events = t.events \cup {e}
    BY <1>1, <1>2, BookedFields
  <1>4. e.key = <<t.receipt, t.line>> /\ e.sku = s /\ e.delta = l.quantity
    BY <1>2 DEF Event
  <1>5. /\ t.line \in Nat \ {0} /\ l.quantity \in Nat \ {0} /\ OnHand(t, s) \in Nat
        /\ t.receipt \in Receipt
    BY LineTypes
  <1>6. DOMAIN X.stock = DOMAIN t.stock \cup {s} /\ X.stock[s] = a
        /\ \A u \in DOMAIN t.stock : u # s => X.stock[u] = t.stock[u]
    BY BookedMaps
  <1>7. /\ IsFiniteSet(t.events) /\ Cardinality(t.events) = t.line - 1 /\ FiniteUnits(t.events)
        /\ \A d \in t.events : d.key[1] = t.receipt /\ d.key[2] < t.line /\ d.sku \in DOMAIN t.stock
        /\ \A u \in DOMAIN t.stock : t.stock[u] = InStock(u) + Total(EventsFor(t.events, u))
    BY DEF LinesBooked
  <1>8. e \notin t.events
    BY <1>4, <1>5, <1>7
  <1>9. IsFiniteSet(X.events) /\ Cardinality(X.events) = X.line - 1
    <2>1. /\ IsFiniteSet(t.events \cup {e})
          /\ Cardinality(t.events \cup {e}) = IF e \in t.events THEN Cardinality(t.events)
                                              ELSE Cardinality(t.events) + 1
      BY <1>7, FS_AddElement
    <2>2. Cardinality(t.events \cup {e}) = (t.line - 1) + 1
      BY <1>7, <1>8, <2>1
    <2>3. (t.line - 1) + 1 = (t.line + 1) - 1
      BY <1>5
    <2> QED BY <1>3, <2>1, <2>2, <2>3
  <1>10. FiniteUnits({e}) /\ Total({e}) = l.quantity
    <2>1. e.delta \in Int
      BY <1>4, <1>5
    <2> QED BY <1>4, <2>1, UnitsOfOne
  <1>11. FiniteUnits(X.events)
    <2>1. t.events \cap {e} = {}
      BY <1>8
    <2>2. FiniteUnits(t.events) /\ FiniteUnits({e})
      BY <1>7, <1>10
    <2>3. FiniteUnits(t.events \cup {e})
      BY <2>1, <2>2, UnitsAdd
    <2> QED BY <1>3, <2>3
  <1>12. \A d \in X.events : d.key[1] = X.receipt /\ d.key[2] < X.line /\ d.sku \in DOMAIN X.stock
    <2>1. e.key[1] = X.receipt /\ e.key[2] < X.line /\ e.sku \in DOMAIN X.stock
      BY <1>3, <1>4, <1>5, <1>6
    <2>2. ASSUME NEW d \in t.events
          PROVE  d.key[1] = X.receipt /\ d.key[2] < X.line /\ d.sku \in DOMAIN X.stock
      <3>1. d.key[2] \in Nat
        BY <1>1 DEF Booking, LedgerEvent
      <3> QED BY <1>3, <1>5, <1>6, <1>7, <3>1
    <2> QED BY <1>3, <2>1, <2>2
  <1>13. X.line <= Len(Lines[X.receipt]) + 1
    <2>1. Len(Lines[t.receipt]) \in Nat
      BY <1>5, StockConstants, LenProperties
    <2>2. t.line <= Len(Lines[t.receipt])
      BY DEF LineFits
    <2> QED BY <1>3, <1>5, <2>1, <2>2
  <1>14. ASSUME NEW u \in DOMAIN X.stock
         PROVE  X.stock[u] = InStock(u) + Total(EventsFor(X.events, u))
    <2>1. CASE u # s
      <3>1. EventsFor(X.events, u) = EventsFor(t.events, u)
        BY <1>3, <1>4, <2>1 DEF EventsFor
      <3> QED BY <1>6, <1>7, <2>1, <3>1
    <2>2. CASE u = s
      <3>1. EventsFor(X.events, s) = EventsFor(t.events, s) \cup {e}
        BY <1>3, <1>4 DEF EventsFor
      <3>2. FiniteUnits(EventsFor(t.events, s)) /\ EventsFor(t.events, s) \cap {e} = {}
        BY <1>7, <1>8, UnitsOfSubset DEF EventsFor
      <3>3. PICK n : n = Total(EventsFor(t.events, s))
        OBVIOUS
      <3>4. Total(EventsFor(X.events, s)) = n + l.quantity /\ n \in Int
        BY <1>10, <3>1, <3>2, <3>3, UnitsAdd
      <3>5. OnHand(t, s) = InStock(s) + n
        <4>1. CASE s \in DOMAIN t.stock
          BY <1>7, <3>3, <4>1 DEF OnHand
        <4>2. CASE s \notin DOMAIN t.stock
          <5>1. EventsFor(t.events, s) = {}
            BY <1>7, <4>2 DEF EventsFor
          <5>2. n = 0
            BY <3>3, <5>1, NoUnits
          <5>3. OnHand(t, s) = InStock(s)
            BY <4>2 DEF OnHand, InStock
          <5> QED BY <1>5, <5>2, <5>3
        <4> QED BY <4>1, <4>2
      <3>6. InStock(s) \in Int
        <4>1. \A x \in DOMAIN stock : stock[x] \in 0..MaxStock
          BY MapFacts DEF TablesSound
        <4> QED BY <4>1 DEF InStock
      <3>7. a = OnHand(t, s) + l.quantity
        BY DEF LineFits
      <3>8. a = InStock(s) + (n + l.quantity)
        BY <1>5, <3>4, <3>5, <3>6, <3>7
      <3> QED BY <1>6, <2>2, <3>4, <3>8
    <2> QED BY <2>1, <2>2
  <1> QED BY <1>9, <1>11, <1>12, <1>13, <1>14 DEF LinesBooked

\* What was named so far stays named, and the line itself counts from now on.
LEMMA LineNames ==
    ASSUME TablesSound, NEW t, NEW l, NEW s, NEW a, NEW b, LineFits(t, l, s, a, b),
           NEW X, X = Booked(t, l, s, a, b)
    PROVE  /\ \A u, c : NamedSoFar(t, u, c) => NamedSoFar(X, u, c)
           /\ NamedSoFar(X, l.sku, l.barcode)
  <1>1. X.receipt = t.receipt /\ X.line = t.line + 1 /\ t.line \in Nat \ {0}
    <2>1. t \in Booking
      BY DEF LineFits
    <2>2. X.receipt = t.receipt /\ X.line = t.line + 1
      BY <2>1, BookedFields
    <2> QED BY <2>2, LineTypes
  <1>2. 1..(t.line - 1) \subseteq 1..(X.line - 1) /\ t.line \in 1..(X.line - 1)
    BY <1>1
  <1>3. l = Lines[t.receipt][t.line]
    BY DEF LineFits
  <1> QED BY <1>1, <1>2, <1>3 DEF NamedSoFar

\* The line does to the barcodes what it may.
LEMMA LineBarcodes ==
    ASSUME TablesSound, NEW t, NEW l, NEW s, NEW a, NEW b, LineFits(t, l, s, a, b),
           NEW X, X = Booked(t, l, s, a, b), RowsLocked(t), BarcodesSound(t)
    PROVE  BarcodesSound(X)
  <1>1. X.rows = t.rows /\ X.created = t.created \cup ({s} \ DOMAIN t.index)
    <2>1. t \in Booking
      BY DEF LineFits
    <2> QED BY <2>1, BookedFields
  <1>2. /\ DOMAIN X.index = DOMAIN t.index \cup {s}
        /\ \A u \in DOMAIN t.index : X.index[u] = t.index[u]
        /\ s \notin DOMAIN t.index => X.index[s] = l.barcode
        /\ DOMAIN X.barcodes = DOMAIN t.barcodes \cup {s} /\ X.barcodes[s] = b
        /\ \A u \in DOMAIN t.barcodes : u # s => X.barcodes[u] = t.barcodes[u]
    BY BookedMaps
  <1>3. /\ s \notin DOMAIN t.index => s = l.sku
        /\ l.barcode # NoBarcode /\ (s \in DOMAIN t.index => t.index[s] # l.barcode) =>
             s = l.sku /\ \A u \in DOMAIN t.index : t.index[u] # l.barcode
    <2>1. Identifies(t.index, l) /\ s = ProductOf(t.index, l)
      BY DEF LineFits
    <2> QED BY <2>1, ProductFacts
  <1>4. /\ t.rows \subseteq DOMAIN t.index /\ t.created \subseteq DOMAIN t.index
        /\ DOMAIN t.barcodes \subseteq DOMAIN t.index
    BY DEF RowsLocked
  <1>5. /\ \A u, c : NamedSoFar(t, u, c) => NamedSoFar(X, u, c)
        /\ NamedSoFar(X, l.sku, l.barcode)
    BY LineNames
  <1>6. b = IF l.barcode # NoBarcode THEN l.barcode
            ELSE IF s \in DOMAIN t.barcodes THEN t.barcodes[s]
            ELSE IF s \in DOMAIN t.index THEN t.index[s] ELSE NoBarcode
    BY DEF LineFits, BarcodeAfter
  <1>7. ASSUME NEW x \in DOMAIN X.index, NEW u \in DOMAIN X.index, x # u,
               X.index[x] = X.index[u], X.index[x] # NoBarcode
        PROVE  x \in X.rows /\ u \in X.rows
    <2>1. CASE x \in DOMAIN t.index /\ u \in DOMAIN t.index
      BY <1>1, <1>2, <1>7, <2>1 DEF BarcodesSound
    <2>2. CASE x \notin DOMAIN t.index \/ u \notin DOMAIN t.index
      BY <1>2, <1>3, <1>7, <2>2
    <2> QED BY <2>1, <2>2
  <1>8. ASSUME NEW x \in DOMAIN X.barcodes, X.barcodes[x] \notin {NoBarcode, X.index[x]}
        PROVE  /\ NamedSoFar(X, x, X.barcodes[x])
               /\ \A u \in X.rows \ {x} : X.index[u] # X.barcodes[x]
    <2>1. CASE x # s
      <3>1. x \in DOMAIN t.barcodes /\ X.barcodes[x] = t.barcodes[x] /\ X.index[x] = t.index[x]
        BY <1>2, <1>4, <2>1
      <3>2. /\ NamedSoFar(t, x, t.barcodes[x])
            /\ \A u \in t.rows \ {x} : t.index[u] # t.barcodes[x]
        BY <1>8, <3>1 DEF BarcodesSound
      <3> QED BY <1>1, <1>2, <1>4, <1>5, <3>1, <3>2
    <2>2. CASE x = s /\ l.barcode # NoBarcode
      <3>1. b = l.barcode /\ X.index[s] # l.barcode
        BY <1>2, <1>6, <1>8, <2>2
      <3>2. s \in DOMAIN t.index /\ t.index[s] # l.barcode
        BY <1>2, <3>1
      <3>3. s = l.sku /\ \A u \in DOMAIN t.index : t.index[u] # l.barcode
        BY <1>3, <2>2, <3>2
      <3> QED BY <1>1, <1>2, <1>4, <1>5, <2>2, <3>1, <3>3
    <2>3. CASE x = s /\ l.barcode = NoBarcode
      <3>1. s \in DOMAIN t.index
        BY <1>2, <1>4, <1>6, <1>8, <2>3
      <3>2. s \in DOMAIN t.barcodes /\ b = t.barcodes[s] /\ X.index[s] = t.index[s]
        BY <1>2, <1>6, <1>8, <2>3, <3>1
      <3>3. /\ NamedSoFar(t, s, t.barcodes[s])
            /\ \A u \in t.rows \ {s} : t.index[u] # t.barcodes[s]
        BY <1>2, <1>8, <2>3, <3>2 DEF BarcodesSound
      <3> QED BY <1>1, <1>2, <1>4, <1>5, <2>3, <3>2, <3>3
    <2> QED BY <2>1, <2>2, <2>3
  <1>9. ASSUME NEW x \in X.created, X.index[x] # NoBarcode
        PROVE  NamedSoFar(X, x, X.index[x])
    <2>1. CASE x \in t.created
      <3>1. X.index[x] = t.index[x]
        BY <1>2, <1>4, <2>1
      <3> QED BY <1>5, <1>9, <2>1, <3>1 DEF BarcodesSound
    <2>2. CASE x \notin t.created
      BY <1>1, <1>2, <1>3, <1>5, <2>2
    <2> QED BY <2>1, <2>2
  <1> QED BY <1>7, <1>8, <1>9 DEF BarcodesSound

\* A line is booked: nothing is committed yet.
LEMMA BookLineInv ==
    ASSUME InventoryInv, NEW w \in Session, BookLine(w)
    PROVE  InventoryInv'
  <1>1. PICK t : t = tx[w]
    OBVIOUS
  <1>2. PICK l : l = Lines[t.receipt][t.line]
    OBVIOUS
  <1>3. PICK s : s = ProductOf(t.index, l)
    OBVIOUS
  <1>4. PICK a : a = OnHand(t, s) + l.quantity
    OBVIOUS
  <1>5. PICK b : b = BarcodeAfter(t, s, l)
    OBVIOUS
  <1>6. PICK X : X = Booked(t, l, s, a, b)
    OBVIOUS
  <1>7. /\ t.pc = "booking" /\ t.line <= Len(Lines[t.receipt]) /\ Identifies(t.index, l)
        /\ s \in DOMAIN t.index \/ Insertable(w, s)
        /\ StockFree(w, {s}) /\ a <= MaxStock /\ UNCHANGED <<stockVars, scanVars>>
    BY <1>1, <1>2, <1>3, <1>4 DEF BookLine
  <1>8. tx' = [tx EXCEPT ![w] = X]
    BY <1>1, <1>2, <1>3, <1>4, <1>5, <1>6 DEF BookLine, Booked
  <1>9. TxSound(t)
    BY <1>1, InFlight
  <1>10. /\ t \in Booking /\ RowsLocked(t) /\ LinesBooked(t) /\ BarcodesSound(t)
         /\ t.receipt \in Receipt /\ t.receipt \notin answers
    BY <1>7, <1>9 DEF TxSound, Confirming
  <1>11. LineFits(t, l, s, a, b) /\ TablesSound
    BY <1>2, <1>3, <1>4, <1>5, <1>7, <1>10 DEF LineFits, InventoryInv
  <1>12. s \in DOMAIN t.index \/ s \notin DOMAIN products
    BY <1>7 DEF Insertable
  <1>13. RowsLocked(X)
    BY <1>6, <1>10, <1>11, <1>12, LineRows
  <1>14. LinesBooked(X)
    BY <1>6, <1>10, <1>11, LineCounted
  <1>15. BarcodesSound(X)
    BY <1>6, <1>10, <1>11, LineBarcodes
  <1>16. X \in Booking /\ DOMAIN X.stock = DOMAIN t.stock \cup {s}
    BY <1>6, <1>11, BookedMaps
  <1>17. /\ X.pc = "booking" /\ X.receipt = t.receipt /\ X.rows = t.rows
         /\ X.created = t.created \cup ({s} \ DOMAIN t.index)
    BY <1>6, <1>10, BookedFields
  <1>18. TxSound(X)
    BY <1>10, <1>13, <1>14, <1>15, <1>16, <1>17 DEF TxSound, Confirming
  <1>19. ASSUME NEW v \in Session \ {w} PROVE Compatible(tx[v], X)
    <2>1. Compatible(tx[v], t)
      BY <1>1, InFlight
    <2>2. /\ Products(t) = t.rows \cup t.created /\ Stocks(t) = DOMAIN t.stock
          /\ Products(X) = Products(t) \cup ({s} \ DOMAIN t.index) /\ Stocks(X) = Stocks(t) \cup {s}
      BY <1>7, <1>16, <1>17 DEF Products, Stocks
    <2>3. s \notin Stocks(tx[v]) /\ (s \in DOMAIN t.index \/ s \notin Products(tx[v]))
      BY <1>7, LocksHeld DEF StockFree, Insertable
    <2> QED BY <1>7, <1>17, <2>1, <2>2, <2>3 DEF Compatible, Confirming
  <1> QED BY <1>7, <1>8, <1>18, <1>19, QuietRequest

-----------------------------------------------------------------------------
(* Commits.                                                                 *)

\* The stock and the ledger that a request found.
LEMMA TableFacts ==
    ASSUME InventoryInv
    PROVE  /\ products \in Map(Sku, Barcodes) /\ stock \in Map(Sku, 0..MaxStock)
           /\ DOMAIN stock = DOMAIN products /\ DOMAIN stock \subseteq Sku
           /\ \A s \in DOMAIN stock : stock[s] \in 0..MaxStock
           /\ ledger \subseteq LedgerEvent /\ FiniteUnits(ledger)
           /\ \A s : InStock(s) \in Int /\ InStock(s) = Total(EventsFor(ledger, s))
  <1>1. /\ products \in Map(Sku, Barcodes) /\ stock \in Map(Sku, 0..MaxStock)
        /\ DOMAIN stock = DOMAIN products /\ ledger \subseteq LedgerEvent /\ FiniteUnits(ledger)
        /\ \A e \in ledger : e.sku \in DOMAIN stock
    BY DEF InventoryInv, TablesSound
  <1>2. DOMAIN stock \subseteq Sku /\ \A s \in DOMAIN stock : stock[s] \in 0..MaxStock
    BY <1>1, MapFacts
  <1>3. ASSUME NEW s PROVE InStock(s) \in Int /\ InStock(s) = Total(EventsFor(ledger, s))
    <2>1. CASE s \in DOMAIN stock
      <3>1. stock[s] = Total({e \in ledger : e.sku = s})
        BY <2>1 DEF InventoryInv, StockMatchesLedger
      <3>2. InStock(s) = stock[s]
        BY <2>1 DEF InStock
      <3> QED BY <1>2, <2>1, <3>1, <3>2 DEF EventsFor
    <2>2. CASE s \notin DOMAIN stock
      <3>1. EventsFor(ledger, s) = {}
        BY <1>1, <2>2 DEF EventsFor
      <3>2. InStock(s) = 0
        BY <2>2 DEF InStock
      <3> QED BY <3>1, <3>2, NoUnits
    <2> QED BY <2>1, <2>2
  <1> QED BY <1>1, <1>2, <1>3

\* A ledger that grows by new events counts them too.
LEMMA LedgerGrows ==
    ASSUME InventoryInv, NEW E, ledger \cap E = {}, FiniteUnits(E)
    PROVE  /\ FiniteUnits(ledger \cup E)
           /\ \A s : Total(EventsFor(ledger \cup E, s)) = InStock(s) + Total(EventsFor(E, s))
  <1>1. FiniteUnits(ledger)
    BY TableFacts
  <1>2. FiniteUnits(ledger \cup E)
    BY <1>1, UnitsAdd
  <1>3. ASSUME NEW s PROVE Total(EventsFor(ledger \cup E, s)) = InStock(s) + Total(EventsFor(E, s))
    <2>1. PICK A, B : A = EventsFor(ledger, s) /\ B = EventsFor(E, s)
      OBVIOUS
    <2>2. A \subseteq ledger /\ B \subseteq E /\ A \cap B = {} /\ EventsFor(ledger \cup E, s) = A \cup B
      BY <2>1 DEF EventsFor
    <2>3. FiniteUnits(A) /\ FiniteUnits(B)
      BY <1>1, <2>2, UnitsOfSubset
    <2>4. Total(A \cup B) = Total(A) + Total(B)
      BY <2>2, <2>3, UnitsAdd
    <2>5. InStock(s) = Total(A)
      BY <2>1, TableFacts
    <2> QED BY <2>1, <2>2, <2>4, <2>5
  <1> QED BY <1>2, <1>3

\* An event is committed: its product has the stock that was computed.
LEMMA CommitEventInv ==
    ASSUME InventoryInv, NEW w \in Session, CommitEvent(w)
    PROVE  InventoryInv'
  <1>1. PICK e : e = tx[w].event
    OBVIOUS
  <1>2. /\ tx[w].pc = "event" /\ stock' = [stock EXCEPT ![e.sku] = e.after]
        /\ ledger' = ledger \cup {e} /\ alerts' \subseteq alerts \cup {e.key}
        /\ tx' = [tx EXCEPT ![w] = Idle]
        /\ UNCHANGED products /\ UNCHANGED answers /\ UNCHANGED phantom
        /\ UNCHANGED sales /\ UNCHANGED proposals /\ UNCHANGED cards /\ UNCHANGED crowded
    BY <1>1 DEF CommitEvent, scanVars
  <1>3. /\ e \in LedgerEvent /\ e.key[1] \in EventKey /\ e.sku \in DOMAIN stock
        /\ e.after = stock[e.sku] + e.delta /\ \A d \in ledger : d.key # e.key
    BY <1>1, <1>2, InFlight DEF TxSound, EventSound
  <1>4. e.delta \in Int /\ e.after \in 0..MaxStock /\ e \notin ledger
    BY <1>3 DEF LedgerEvent
  <1>5. FiniteUnits({e}) /\ Total({e}) = e.delta /\ ledger \cap {e} = {}
    BY <1>4, UnitsOfOne
  <1>6. DOMAIN stock' = DOMAIN stock /\ stock'[e.sku] = e.after
        /\ \A s \in DOMAIN stock : s # e.sku => stock'[s] = stock[s]
    BY <1>2, <1>3
  <1>7. TablesSound'
    <2>1. stock' \in Map(Sku, 0..MaxStock)
      <3>1. DOMAIN stock \subseteq Sku /\ \A s \in DOMAIN stock : stock[s] \in 0..MaxStock
        BY TableFacts
      <3>2. stock' \in [DOMAIN stock -> 0..MaxStock]
        BY <1>2, <1>4, <3>1
      <3> QED BY <3>1, <3>2, MapIntro
    <2>2. FiniteUnits(ledger \cup {e})
      BY <1>5, LedgerGrows
    <2>3. FiniteUnits(ledger')
      BY <1>2, <2>2
    <2>4. \A d \in ledger' : d.sku \in DOMAIN stock' /\ (d.key[1] \in Receipt => d.key[1] \in answers')
      BY <1>2, <1>3, <1>6, StockConstants DEF InventoryInv, TablesSound
    <2>5. alerts' \subseteq {d.key : d \in ledger'}
      BY <1>2 DEF InventoryInv, TablesSound
    <2> QED BY <1>2, <1>3, <1>6, <2>1, <2>3, <2>4, <2>5 DEF InventoryInv, TablesSound
  <1>8. StockMatchesLedger'
    <2>1. ASSUME NEW s \in DOMAIN stock PROVE stock'[s] = Total(EventsFor(ledger \cup {e}, s))
      <3>1. Total(EventsFor(ledger \cup {e}, s)) = InStock(s) + Total(EventsFor({e}, s))
        BY <1>5, LedgerGrows
      <3>2. InStock(s) = stock[s] /\ stock[s] \in Int
        BY TableFacts DEF InStock
      <3>3. CASE s = e.sku
        <4>1. EventsFor({e}, s) = {e}
          BY <3>3 DEF EventsFor
        <4> QED BY <1>3, <1>5, <1>6, <3>1, <3>2, <3>3, <4>1
      <3>4. CASE s # e.sku
        <4>1. EventsFor({e}, s) = {}
          BY <3>4 DEF EventsFor
        <4>2. Total(EventsFor({e}, s)) = 0
          BY <4>1, NoUnits
        <4> QED BY <1>6, <3>1, <3>2, <3>4, <4>2
      <3> QED BY <3>3, <3>4
    <2> QED BY <1>2, <1>6, <2>1 DEF StockMatchesLedger, EventsFor
  <1>9. ReceiptBookedOnce'
    <2>1. \A r \in Receipt : {d \in ledger' : d.key[1] = r} = {d \in ledger : d.key[1] = r}
      BY <1>2, <1>3, StockConstants
    <2> QED BY <1>2, <2>1 DEF InventoryInv, ReceiptBookedOnce, EventsOf
  <1>10. ASSUME NEW v \in Session \ {w}, NEW t, t = tx[v] PROVE TxSound(t)'
    <2>1. TxSound(t) /\ Compatible(t, tx[w])
      BY <1>10, InFlight
    <2>2. Stocks(tx[w]) = {e.sku}
      BY <1>1, <1>2 DEF Stocks
    <2>3. e.sku \notin Stocks(t) /\ (t.pc = "event" => t.event.key # e.key)
      BY <1>1, <1>2, <2>1, <2>2 DEF Compatible
    <2>4. \A s \in Stocks(t) : InStock(s)' = InStock(s) /\ (s \in DOMAIN stock => s \in DOMAIN stock')
      BY <1>6, <2>3 DEF InStock
    <2>5. t.pc \in Confirming => t.receipt \notin answers'
      BY <1>2, <2>1 DEF TxSound
    <2>6. t.pc = "event" => \A d \in ledger' : d.key # t.event.key
      BY <1>2, <2>1, <2>3 DEF TxSound, EventSound
    <2> QED BY <1>2, <2>1, <2>4, <2>5, <2>6, TxKept
  <1>11. TxsSound'
    <2>1. TxsSound
      BY DEF InventoryInv
    <2> QED BY <1>2, <1>10, <2>1, IdleFacts, TxsStep
  <1>12. ScansSound' /\ SharedBarcodeExplained' /\ DuplicateOnlyIfCrowded'
    BY <1>2 DEF InventoryInv, ScansSound, SharedBarcodeExplained, DuplicateOnlyIfCrowded, Pending
  <1> QED BY <1>7, <1>8, <1>9, <1>11, <1>12 DEF InventoryInv

\* A booking whose lines are all booked, and the tables after its commit.
ReceiptDone(t) ==
    /\ t.pc = "booking" /\ TxSound(t) /\ t.line > Len(Lines[t.receipt])
    /\ products' = Overlay(products, t.barcodes) /\ stock' = Overlay(stock, t.stock)
    /\ ledger' = ledger \cup t.events /\ answers' = answers \cup {t.receipt}
    /\ alerts' \subseteq alerts \cup {e.key : e \in t.events}
    /\ phantom' = (phantom \/ ~(DOMAIN products \subseteq t.rows))
    /\ UNCHANGED sales /\ UNCHANGED proposals /\ UNCHANGED cards /\ UNCHANGED crowded

\* What the commit of a receipt does to the tables, entry by entry.
LEMMA ReceiptTables ==
    ASSUME InventoryInv, NEW t, ReceiptDone(t)
    PROVE  /\ t \in Booking /\ RowsLocked(t) /\ LinesBooked(t) /\ BarcodesSound(t)
           /\ t.receipt \in Receipt /\ t.receipt \notin answers
           /\ products' \in Map(Sku, Barcodes) /\ stock' \in Map(Sku, 0..MaxStock)
           /\ DOMAIN products' = DOMAIN products \cup DOMAIN t.barcodes
           /\ DOMAIN stock' = DOMAIN stock \cup DOMAIN t.stock
           /\ \A s \in DOMAIN t.barcodes : products'[s] = t.barcodes[s]
           /\ \A s \in DOMAIN products \ DOMAIN t.barcodes : products'[s] = products[s]
           /\ \A s \in DOMAIN t.stock : stock'[s] = t.stock[s]
           /\ \A s \in DOMAIN stock \ DOMAIN t.stock : stock'[s] = stock[s]
  <1>1. /\ t \in Booking /\ RowsLocked(t) /\ LinesBooked(t) /\ BarcodesSound(t)
        /\ t.receipt \in Receipt /\ t.receipt \notin answers
    BY DEF ReceiptDone, TxSound, Confirming
  <1>2. t.barcodes \in Map(Sku, Barcodes) /\ t.stock \in Map(Sku, 0..MaxStock)
    BY <1>1 DEF Booking
  <1>3. products \in Map(Sku, Barcodes) /\ stock \in Map(Sku, 0..MaxStock)
    BY TableFacts
  <1>4. PICK p, k : p = Overlay(products, t.barcodes) /\ k = Overlay(stock, t.stock)
    OBVIOUS
  <1>5. products' = p /\ stock' = k
    BY <1>4 DEF ReceiptDone
  <1>6. /\ p \in Map(Sku, Barcodes) /\ DOMAIN p = DOMAIN products \cup DOMAIN t.barcodes
        /\ \A s \in DOMAIN t.barcodes : p[s] = t.barcodes[s]
        /\ \A s \in DOMAIN products \ DOMAIN t.barcodes : p[s] = products[s]
    <2>1. Overlay(products, t.barcodes) \in Map(Sku, Barcodes)
      BY <1>2, <1>3, OverlayFacts
    <2> QED BY <1>4, <2>1 DEF Overlay
  <1>7. /\ k \in Map(Sku, 0..MaxStock) /\ DOMAIN k = DOMAIN stock \cup DOMAIN t.stock
        /\ \A s \in DOMAIN t.stock : k[s] = t.stock[s]
        /\ \A s \in DOMAIN stock \ DOMAIN t.stock : k[s] = stock[s]
    <2>1. Overlay(stock, t.stock) \in Map(Sku, 0..MaxStock)
      BY <1>2, <1>3, OverlayFacts
    <2> QED BY <1>4, <2>1 DEF Overlay
  <1> QED BY <1>1, <1>5, <1>6, <1>7

\* The events of the receipt are new.
LEMMA ReceiptEvents ==
    ASSUME InventoryInv, NEW t, ReceiptDone(t)
    PROVE  /\ ledger \cap t.events = {} /\ FiniteUnits(t.events) /\ t.events \subseteq LedgerEvent
           /\ \A e \in t.events : e.key[1] = t.receipt /\ e.sku \in DOMAIN t.stock
           /\ \A e \in ledger : e.key[1] # t.receipt
           /\ Cardinality(t.events) = Len(Lines[t.receipt])
  <1>1. t \in Booking /\ LinesBooked(t) /\ t.receipt \in Receipt /\ t.receipt \notin answers
    BY ReceiptTables
  <1>2. /\ FiniteUnits(t.events) /\ Cardinality(t.events) = t.line - 1
        /\ t.line <= Len(Lines[t.receipt]) + 1
        /\ \A e \in t.events : e.key[1] = t.receipt /\ e.sku \in DOMAIN t.stock
    BY <1>1 DEF LinesBooked
  <1>3. \A e \in ledger : e.key[1] # t.receipt
    BY <1>1 DEF InventoryInv, TablesSound
  <1>4. Len(Lines[t.receipt]) \in Nat
    BY <1>1, StockConstants, LenProperties
  <1>5. t.line \in Nat /\ t.events \subseteq LedgerEvent
    BY <1>1 DEF Booking
  <1>6. t.line > Len(Lines[t.receipt])
    BY DEF ReceiptDone
  <1>7. t.line - 1 = Len(Lines[t.receipt])
    BY <1>2, <1>4, <1>5, <1>6
  <1> QED BY <1>2, <1>3, <1>5, <1>7

\* The tables fit each other after the commit.
LEMMA ReceiptTablesSound ==
    ASSUME InventoryInv, NEW t, ReceiptDone(t)
    PROVE  TablesSound'
  <1>1. /\ products' \in Map(Sku, Barcodes) /\ stock' \in Map(Sku, 0..MaxStock)
        /\ DOMAIN products' = DOMAIN products \cup DOMAIN t.barcodes
        /\ DOMAIN stock' = DOMAIN stock \cup DOMAIN t.stock /\ DOMAIN t.stock = DOMAIN t.barcodes
        /\ t.receipt \in Receipt
    BY ReceiptTables DEF RowsLocked
  <1>2. /\ ledger \cap t.events = {} /\ FiniteUnits(t.events) /\ t.events \subseteq LedgerEvent
        /\ \A e \in t.events : e.key[1] = t.receipt /\ e.sku \in DOMAIN t.stock
    BY ReceiptEvents
  <1>3. /\ ledger' = ledger \cup t.events /\ answers' = answers \cup {t.receipt}
        /\ alerts' \subseteq alerts \cup {e.key : e \in t.events}
    BY DEF ReceiptDone
  <1>4. /\ DOMAIN stock = DOMAIN products /\ ledger \subseteq LedgerEvent
        /\ \A e \in ledger : e.sku \in DOMAIN stock /\ (e.key[1] \in Receipt => e.key[1] \in answers)
        /\ answers \subseteq Receipt /\ alerts \subseteq {e.key : e \in ledger}
    BY DEF InventoryInv, TablesSound
  <1>5. FiniteUnits(ledger \cup t.events)
    BY <1>2, LedgerGrows
  <1>6. FiniteUnits(ledger')
    BY <1>3, <1>5
  <1>7. \A e \in ledger' : e.sku \in DOMAIN stock' /\ (e.key[1] \in Receipt => e.key[1] \in answers')
    BY <1>1, <1>2, <1>3, <1>4
  <1>8. alerts' \subseteq {e.key : e \in ledger'}
    BY <1>3, <1>4
  <1>9. DOMAIN stock' = DOMAIN products' /\ ledger' \subseteq LedgerEvent /\ answers' \subseteq Receipt
    BY <1>1, <1>2, <1>3, <1>4
  <1> QED BY <1>1, <1>6, <1>7, <1>8, <1>9 DEF TablesSound

\* The stock counts the lines of the receipt.
LEMMA ReceiptStock ==
    ASSUME InventoryInv, NEW t, ReceiptDone(t)
    PROVE  StockMatchesLedger'
  <1>1. /\ DOMAIN stock' = DOMAIN stock \cup DOMAIN t.stock /\ LinesBooked(t)
        /\ \A s \in DOMAIN t.stock : stock'[s] = t.stock[s]
        /\ \A s \in DOMAIN stock \ DOMAIN t.stock : stock'[s] = stock[s]
    BY ReceiptTables
  <1>2. /\ ledger \cap t.events = {} /\ FiniteUnits(t.events)
        /\ \A e \in t.events : e.sku \in DOMAIN t.stock
    BY ReceiptEvents
  <1>3. ASSUME NEW s \in DOMAIN stock' PROVE stock'[s] = Total(EventsFor(ledger \cup t.events, s))
    <2>1. Total(EventsFor(ledger \cup t.events, s)) = InStock(s) + Total(EventsFor(t.events, s))
      BY <1>2, LedgerGrows
    <2>2. CASE s \in DOMAIN t.stock
      <3>1. t.stock[s] = InStock(s) + Total(EventsFor(t.events, s))
        BY <1>1, <2>2 DEF LinesBooked
      <3> QED BY <1>1, <2>1, <2>2, <3>1
    <2>3. CASE s \notin DOMAIN t.stock
      <3>1. EventsFor(t.events, s) = {}
        BY <1>2, <2>3 DEF EventsFor
      <3>2. Total(EventsFor(t.events, s)) = 0
        BY <3>1, NoUnits
      <3>3. InStock(s) = stock[s] /\ stock'[s] = stock[s]
        BY <1>1, <1>3, <2>3 DEF InStock
      <3>4. InStock(s) \in Int
        BY TableFacts
      <3> QED BY <2>1, <3>2, <3>3, <3>4
    <2> QED BY <2>2, <2>3
  <1>4. ledger' = ledger \cup t.events
    BY DEF ReceiptDone
  <1> QED BY <1>3, <1>4 DEF StockMatchesLedger, EventsFor

\* All lines of the receipt are in the ledger, and those of the others as before.
LEMMA ReceiptBooked ==
    ASSUME InventoryInv, NEW t, ReceiptDone(t)
    PROVE  ReceiptBookedOnce'
  <1>1. ledger' = ledger \cup t.events /\ answers' = answers \cup {t.receipt}
    BY DEF ReceiptDone
  <1>2. /\ \A e \in t.events : e.key[1] = t.receipt
        /\ \A e \in ledger : e.key[1] # t.receipt
        /\ Cardinality(t.events) = Len(Lines[t.receipt])
    BY ReceiptEvents
  <1>3. ASSUME NEW r \in Receipt
        PROVE  Cardinality({e \in ledger' : e.key[1] = r}) = IF r \in answers' THEN Len(Lines[r]) ELSE 0
    <2>1. CASE r = t.receipt
      <3>1. {e \in ledger' : e.key[1] = r} = t.events
        BY <1>1, <1>2, <2>1
      <3> QED BY <1>1, <1>2, <2>1, <3>1
    <2>2. CASE r # t.receipt
      <3>1. {e \in ledger' : e.key[1] = r} = {e \in ledger : e.key[1] = r}
        BY <1>1, <1>2, <2>2
      <3> QED BY <1>1, <2>2, <3>1 DEF InventoryInv, ReceiptBookedOnce, EventsOf
    <2> QED BY <2>1, <2>2
  <1> QED BY <1>3 DEF ReceiptBookedOnce, EventsOf

\* A barcode a product has after the commit is the indexed one, or one that
\* the receipt gave it and no listed product was indexed with.
LEMMA ReceiptBarcode ==
    ASSUME InventoryInv, NEW t, ReceiptDone(t), DOMAIN products = t.rows,
           NEW s \in DOMAIN products', products'[s] # NoBarcode
    PROVE  /\ s \in DOMAIN t.index
           /\ \/ products'[s] = t.index[s]
              \/ /\ NamedSoFar(t, s, products'[s])
                 /\ \A u \in t.rows \ {s} : t.index[u] # products'[s]
  <1>1. /\ RowsLocked(t) /\ BarcodesSound(t)
        /\ DOMAIN products' = DOMAIN products \cup DOMAIN t.barcodes
        /\ \A u \in DOMAIN t.barcodes : products'[u] = t.barcodes[u]
        /\ \A u \in DOMAIN products \ DOMAIN t.barcodes : products'[u] = products[u]
    BY ReceiptTables
  <1>2. s \in DOMAIN t.index
    BY <1>1 DEF RowsLocked
  <1>3. CASE s \in DOMAIN t.barcodes
    BY <1>1, <1>2, <1>3 DEF BarcodesSound
  <1>4. CASE s \notin DOMAIN t.barcodes
    BY <1>1, <1>2, <1>4 DEF RowsLocked
  <1> QED BY <1>2, <1>3, <1>4

\* What a booking has named when all lines are booked, the receipt names.
LEMMA ReceiptNames ==
    ASSUME InventoryInv, NEW t, ReceiptDone(t), NEW s, NEW c, NamedSoFar(t, s, c)
    PROVE  Names(t.receipt, s, c)
  <1>1. t \in Booking /\ LinesBooked(t) /\ t.receipt \in Receipt
    BY ReceiptTables
  <1>2. Len(Lines[t.receipt]) \in Nat /\ DOMAIN Lines[t.receipt] = 1..Len(Lines[t.receipt])
    BY <1>1, StockConstants, LenProperties
  <1>3. t.line \in Nat /\ t.line <= Len(Lines[t.receipt]) + 1
    BY <1>1 DEF Booking, LinesBooked
  <1>4. 1..(t.line - 1) \subseteq DOMAIN Lines[t.receipt]
    BY <1>2, <1>3
  <1> QED BY <1>4 DEF NamedSoFar, Names

\* Products that share a barcode after the commit did so before, or the receipt
\* named both with it, or a product came in behind the confirmation's back.
LEMMA ReceiptShared ==
    ASSUME InventoryInv, NEW t, ReceiptDone(t)
    PROVE  SharedBarcodeExplained'
  <1> SUFFICES ASSUME NEW s \in DOMAIN products', NEW u \in DOMAIN products',
                      products'[s] = products'[u], products'[s] # NoBarcode, s # u, ~phantom'
               PROVE  \E r \in answers' : Names(r, s, products'[s]) /\ Names(r, u, products'[s])
    BY DEF SharedBarcodeExplained, Names
  <1>1. RowsLocked(t) /\ BarcodesSound(t)
    BY ReceiptTables
  <1>2. ~phantom /\ DOMAIN products = t.rows /\ answers' = answers \cup {t.receipt}
    BY <1>1 DEF ReceiptDone, RowsLocked
  <1>3. PICK c : c = products'[s]
    OBVIOUS
  <1>4. /\ s \in DOMAIN t.index
        /\ c = t.index[s] \/ (NamedSoFar(t, s, c) /\ \A x \in t.rows \ {s} : t.index[x] # c)
    BY <1>2, <1>3, ReceiptBarcode
  <1>5. /\ u \in DOMAIN t.index
        /\ c = t.index[u] \/ (NamedSoFar(t, u, c) /\ \A x \in t.rows \ {u} : t.index[x] # c)
    BY <1>2, <1>3, ReceiptBarcode
  <1>6. CASE c = t.index[s] /\ c = t.index[u]
    <2>1. s \in t.rows /\ u \in t.rows
      BY <1>1, <1>3, <1>4, <1>5, <1>6 DEF BarcodesSound
    <2>2. products[s] = c /\ products[u] = c
      BY <1>1, <1>6, <2>1 DEF RowsLocked
    <2>3. \E r \in answers : Names(r, s, c) /\ Names(r, u, c)
      BY <1>2, <1>3, <2>1, <2>2 DEF InventoryInv, SharedBarcodeExplained
    <2> QED BY <1>2, <1>3, <2>3
  <1>7. CASE ~(c = t.index[s] /\ c = t.index[u])
    <2>1. NamedSoFar(t, s, c)
      <3>1. CASE c = t.index[s]
        <4>1. s \notin t.rows
          BY <1>5, <1>7, <3>1
        <4>2. s \in t.created
          BY <1>1, <1>4, <4>1 DEF RowsLocked
        <4> QED BY <1>1, <1>3, <3>1, <4>2 DEF BarcodesSound
      <3>2. CASE c # t.index[s]
        BY <1>4, <3>2
      <3> QED BY <3>1, <3>2
    <2>2. NamedSoFar(t, u, c)
      <3>1. CASE c = t.index[u]
        <4>1. u \notin t.rows
          BY <1>4, <1>7, <3>1
        <4>2. u \in t.created
          BY <1>1, <1>5, <4>1 DEF RowsLocked
        <4> QED BY <1>1, <1>3, <3>1, <4>2 DEF BarcodesSound
      <3>2. CASE c # t.index[u]
        BY <1>5, <3>2
      <3> QED BY <3>1, <3>2
    <2>3. Names(t.receipt, s, c) /\ Names(t.receipt, u, c)
      BY <2>1, <2>2, ReceiptNames
    <2> QED BY <1>2, <1>3, <2>3
  <1> QED BY <1>6, <1>7

\* The requests still in flight do not notice the commit of a receipt.
LEMMA ReceiptOthers ==
    ASSUME InventoryInv, NEW t, ReceiptDone(t), NEW q, TxSound(q), Compatible(q, t)
    PROVE  TxSound(q)'
  <1>1. /\ RowsLocked(t) /\ t.receipt \in Receipt
        /\ DOMAIN products' = DOMAIN products \cup DOMAIN t.barcodes
        /\ DOMAIN stock' = DOMAIN stock \cup DOMAIN t.stock
        /\ \A s \in DOMAIN products \ DOMAIN t.barcodes : products'[s] = products[s]
        /\ \A s \in DOMAIN stock \ DOMAIN t.stock : stock'[s] = stock[s]
    BY ReceiptTables
  <1>2. t.pc = "booking"
    BY DEF ReceiptDone
  <1>3. /\ DOMAIN t.barcodes \subseteq Products(t) /\ DOMAIN t.stock = Stocks(t)
    BY <1>1, <1>2 DEF RowsLocked, Products, Stocks
  <1>4. Products(q) \cap Products(t) = {} /\ Stocks(q) \cap Stocks(t) = {}
    BY DEF Compatible
  <1>5. \A s \in Products(q) : /\ s \in DOMAIN products' => s \in DOMAIN products
                               /\ s \in DOMAIN products => products'[s] = products[s]
    BY <1>1, <1>3, <1>4
  <1>6. \A s \in Stocks(q) : InStock(s)' = InStock(s) /\ (s \in DOMAIN stock => s \in DOMAIN stock')
    BY <1>1, <1>3, <1>4 DEF InStock
  <1>7. q.pc \in Confirming => q.receipt \notin answers'
    BY <1>2 DEF ReceiptDone, Compatible, TxSound, Confirming
  <1>8. q.pc = "event" => \A e \in ledger' : e.key # q.event.key
    <2>1. SUFFICES ASSUME q.pc = "event" PROVE \A e \in ledger' : e.key # q.event.key
      OBVIOUS
    <2>2. q.event.key[1] \in EventKey /\ \A e \in ledger : e.key # q.event.key
      BY <2>1 DEF TxSound, EventSound
    <2>3. \A e \in t.events : e.key[1] = t.receipt
      BY ReceiptEvents
    <2>4. t.receipt \notin EventKey
      BY <1>1, StockConstants
    <2>5. ledger' = ledger \cup t.events
      BY DEF ReceiptDone
    <2> QED BY <2>2, <2>3, <2>4, <2>5
  <1>9. DOMAIN products \subseteq DOMAIN products' /\ DOMAIN proposals \subseteq DOMAIN proposals'
    BY <1>1 DEF ReceiptDone
  <1> QED BY <1>5, <1>6, <1>7, <1>8, <1>9, TxKept

\* A receipt is committed.
LEMMA CommitReceiptInv ==
    ASSUME InventoryInv, NEW w \in Session, CommitReceipt(w)
    PROVE  InventoryInv'
  <1>1. PICK t : t = tx[w]
    OBVIOUS
  <1>2. TxSound(t)
    BY <1>1, InFlight
  <1>3. ReceiptDone(t) /\ tx' = [tx EXCEPT ![w] = Idle]
    BY <1>1, <1>2 DEF CommitReceipt, ReceiptDone, scanVars
  <1>4. ASSUME NEW v \in Session \ {w}, NEW q, q = tx[v] PROVE TxSound(q)'
    <2>1. TxSound(q) /\ Compatible(q, t)
      BY <1>1, <1>4, InFlight
    <2> QED BY <1>3, <2>1, ReceiptOthers
  <1>5. TxsSound'
    <2>1. TxsSound
      BY DEF InventoryInv
    <2> QED BY <1>3, <1>4, <2>1, IdleFacts, TxsStep
  <1>6. TablesSound'
    BY <1>3, ReceiptTablesSound
  <1>7. StockMatchesLedger'
    BY <1>3, ReceiptStock
  <1>8. ReceiptBookedOnce'
    BY <1>3, ReceiptBooked
  <1>9. SharedBarcodeExplained'
    BY <1>3, ReceiptShared
  <1>10. ScansSound' /\ DuplicateOnlyIfCrowded'
    BY <1>3 DEF ReceiptDone, InventoryInv, ScansSound, DuplicateOnlyIfCrowded, Pending
  <1> QED BY <1>5, <1>6, <1>7, <1>8, <1>9, <1>10 DEF InventoryInv

-----------------------------------------------------------------------------
(* The scan.                                                                *)

\* The requests do not notice a proposal that is asked for or decided.
LEMMA TxProposals ==
    ASSUME InventoryInv, UNCHANGED stockVars, DOMAIN proposals \subseteq DOMAIN proposals',
           NEW t, TxSound(t)
    PROVE  TxSound(t)'
  <1>1. /\ UNCHANGED products /\ UNCHANGED stock /\ UNCHANGED ledger /\ UNCHANGED answers
    BY DEF stockVars
  <1>2. \A s : InStock(s)' = InStock(s)
    BY <1>1 DEF InStock
  <1>3. /\ t.pc \in Confirming => t.receipt \notin answers'
        /\ t.pc = "event" => \A e \in ledger' : e.key # t.event.key
    BY <1>1 DEF TxSound, EventSound
  <1> QED BY <1>1, <1>2, <1>3, TxKept

\* A step that leaves the stock alone leaves what is said about it alone.
LEMMA StockKept ==
    ASSUME InventoryInv, UNCHANGED stockVars
    PROVE  TablesSound' /\ StockMatchesLedger' /\ ReceiptBookedOnce' /\ SharedBarcodeExplained'
  <1>1. /\ UNCHANGED products /\ UNCHANGED stock /\ UNCHANGED ledger /\ UNCHANGED alerts
        /\ UNCHANGED answers /\ UNCHANGED phantom
    BY DEF stockVars
  <1>2. TablesSound'
    BY <1>1 DEF InventoryInv, TablesSound
  <1>3. StockMatchesLedger' /\ ReceiptBookedOnce'
    BY <1>1 DEF InventoryInv, StockMatchesLedger, ReceiptBookedOnce, EventsOf
  <1>4. SharedBarcodeExplained'
    BY <1>1 DEF InventoryInv, SharedBarcodeExplained
  <1> QED BY <1>2, <1>3, <1>4

\* A request in flight that is a scan.
LEMMA ScanFacts ==
    ASSUME InventoryInv, NEW w \in Session, tx[w].pc = "scan"
    PROVE  tx[w] \in Scanning /\ \A c \in tx[w].cards : c.proposal \in DOMAIN proposals
  BY InFlight DEF TxSound

\* A scan is compatible with every request.
LEMMA ScanCompatible ==
    ASSUME NEW t, NEW X, X.pc = "scan"
    PROVE  Compatible(t, X)
  <1>1. Products(X) = {} /\ Stocks(X) = {}
    BY DEF Products, Stocks
  <1> QED BY <1>1 DEF Compatible, Confirming

\* A scan begins.
LEMMA ScanInv ==
    ASSUME InventoryInv, NEW w \in Session, Scan(w)
    PROVE  InventoryInv'
  <1>1. PICK T : T = {s \in DOMAIN stock : Low(stock[s])}
    OBVIOUS
  <1>2. PICK X : X = [pc |-> "scan", cards |-> {}, seeded |-> {}, todo |-> T]
    OBVIOUS
  <1>3. tx' = [tx EXCEPT ![w] = X] /\ UNCHANGED <<stockVars, sales, proposals, cards, crowded>>
    BY <1>1, <1>2 DEF Scan
  <1>4. T \subseteq Sku
    BY <1>1, TableFacts
  <1>5. X.pc = "scan" /\ X.cards = {} /\ X \in Scanning
    BY <1>2, <1>4 DEF Scanning
  <1>6. TxSound(X)
    BY <1>5 DEF TxSound, Confirming
  <1>7. \A v \in Session \ {w} : Compatible(tx[v], X)
    BY <1>5, ScanCompatible
  <1> QED BY <1>3, <1>6, <1>7, QuietTables

\* A scan goes on without a proposal.
LEMMA ScanOn ==
    ASSUME InventoryInv, NEW w \in Session, tx[w].pc = "scan", NEW T \in SUBSET Sku,
           NEW D \in SUBSET Sku, NEW X, X = [tx[w] EXCEPT !.todo = T, !.seeded = D],
           tx' = [tx EXCEPT ![w] = X], UNCHANGED <<stockVars, sales, proposals, cards, crowded>>
    PROVE  InventoryInv'
  <1>1. tx[w] \in Scanning /\ \A c \in tx[w].cards : c.proposal \in DOMAIN proposals
    BY ScanFacts
  <1>2. X.pc = "scan" /\ X.cards = tx[w].cards /\ X \in Scanning
    BY <1>1 DEF Scanning
  <1>3. TxSound(X)
    BY <1>1, <1>2 DEF TxSound, Confirming
  <1>4. \A v \in Session \ {w} : Compatible(tx[v], X)
    BY <1>2, ScanCompatible
  <1> QED BY <1>3, <1>4, QuietTables

\* A product is skipped because its workflow raised or found no supplier.
LEMMA ScanFailsInv ==
    ASSUME InventoryInv, NEW w \in Session, NEW s \in Sku, ScanFails(w, s)
    PROVE  InventoryInv'
  <1>1. tx[w].pc = "scan" /\ tx[w] \in Scanning /\ DOMAIN tx = Session
    BY ScanFacts, InFlight DEF ScanFails
  <1>2. PICK T, D : T = tx[w].todo \ {s} /\ D = tx[w].seeded \cup ({s} \ sales)
    OBVIOUS
  <1>3. T \in SUBSET Sku /\ D \in SUBSET Sku
    BY <1>1, <1>2 DEF Scanning
  <1>4. PICK X : X = [tx[w] EXCEPT !.todo = T, !.seeded = D]
    OBVIOUS
  <1>5. tx' = [tx EXCEPT ![w] = X]
    BY <1>1, <1>2, <1>4 DEF ScanFails, Scanning
  <1>6. UNCHANGED <<stockVars, sales, proposals, cards, crowded>>
    BY DEF ScanFails, scanVars
  <1> QED BY <1>1, <1>3, <1>4, <1>5, <1>6, ScanOn

\* If the row that was looked at does not cover a product, and another one
\* would, several rows are pending.
LEMMA OneOfSeveral ==
    ASSUME InventoryInv, NEW s, NEW looked \in Looked, ~Covered(s, looked),
           NEW q \in Pending, proposals[q].sku = s
    PROVE  Cardinality(Pending) > 1
  <1>1. PICK p \in Pending : looked = {p}
    BY DEF Looked
  <1>2. p # q
    BY <1>1 DEF Covered
  <1>3. IsFiniteSet({p}) /\ Cardinality({p}) = 1
    BY FS_Singleton
  <1>4. Cardinality({p} \cup {q}) = 2 /\ {p} \cup {q} \in SUBSET Pending
    <2>1. Cardinality({p} \cup {q}) = IF q \in {p} THEN Cardinality({p}) ELSE Cardinality({p}) + 1
      BY <1>3, FS_AddElement
    <2>2. Cardinality({p} \cup {q}) = 1 + 1
      BY <1>2, <1>3, <2>1
    <2> QED BY <2>2
  <1>5. IsFiniteSet(Pending)
    <2>1. DOMAIN proposals = 1..Len(proposals) /\ Len(proposals) \in Nat
      BY LenProperties DEF InventoryInv, ScansSound, Proposals
    <2>2. IsFiniteSet(1..Len(proposals))
      BY <2>1, FS_Interval
    <2>3. Pending \in SUBSET (1..Len(proposals))
      BY <2>1 DEF Pending
    <2> QED BY <2>2, <2>3, FS_Subset
  <1>6. Cardinality({p} \cup {q}) <= Cardinality(Pending)
    BY <1>4, <1>5, FS_Subset
  <1>7. Cardinality(Pending) \in Nat
    BY <1>5, FS_CardinalityType
  <1> QED BY <1>4, <1>6, <1>7

\* A proposal is asked for and its card staged.
LEMMA ScanProposes ==
    ASSUME InventoryInv, NEW w \in Session, NEW s \in Sku, tx[w].pc = "scan",
           NEW looked \in Looked, ~Covered(s, looked),
           proposals' = Append(proposals, [sku |-> s, status |-> "PENDING"]),
           tx' = [tx EXCEPT ![w].todo = @ \ {s}, ![w].seeded = @ \cup ({s} \ sales),
                            ![w].cards = @ \cup {[proposal |-> Len(proposals'), status |-> "FAILED"]}],
           crowded \/ Cardinality(Pending) > 1 => crowded',
           UNCHANGED <<stockVars, sales, cards>>
    PROVE  InventoryInv'
  <1>1. tx[w] \in Scanning /\ DOMAIN tx = Session /\ \A c \in tx[w].cards : c.proposal \in DOMAIN proposals
    BY ScanFacts, InFlight
  <1>2. PICK n \in Nat : n = Len(proposals)
    BY LenProperties DEF InventoryInv, ScansSound, Proposals
  <1>3. PICK R : R = [sku |-> s, status |-> "PENDING"]
    OBVIOUS
  <1>4. R \in [sku : Sku, status : {"PENDING", "DECIDED"}] /\ R.sku = s
    BY <1>3
  <1>5. proposals \in Proposals /\ proposals' = Append(proposals, R)
    BY <1>3 DEF InventoryInv, ScansSound
  <1>6. /\ proposals' \in Proposals /\ Len(proposals') = n + 1 /\ proposals'[n + 1] = R
        /\ \A i \in 1..n : proposals'[i] = proposals[i]
    BY <1>2, <1>4, <1>5, AppendProperties DEF Proposals
  <1>7. DOMAIN proposals = 1..n /\ DOMAIN proposals' = 1..(n + 1)
    BY <1>2, <1>5, <1>6, LenProperties DEF Proposals
  <1>8. PICK T, D, C : /\ T = tx[w].todo \ {s} /\ D = tx[w].seeded \cup ({s} \ sales)
                       /\ C = tx[w].cards \cup {[proposal |-> n + 1, status |-> "FAILED"]}
    OBVIOUS
  <1>9. PICK X : X = [tx[w] EXCEPT !.todo = T, !.seeded = D, !.cards = C]
    OBVIOUS
  <1>10. tx' = [tx EXCEPT ![w] = X]
    BY <1>1, <1>6, <1>8, <1>9 DEF Scanning
  <1>11. X.pc = "scan" /\ X.cards = C /\ X \in Scanning
    <2>1. T \in SUBSET Sku /\ D \in SUBSET Sku
      BY <1>1, <1>8 DEF Scanning
    <2>2. C \in SUBSET [proposal : Nat, status : {"FAILED"}]
      <3>1. [proposal |-> n + 1, status |-> "FAILED"] \in [proposal : Nat, status : {"FAILED"}]
        OBVIOUS
      <3> QED BY <1>1, <1>8, <3>1 DEF Scanning
    <2> QED BY <1>1, <1>9, <2>1, <2>2 DEF Scanning
  <1>12. \A c \in C : c.proposal \in DOMAIN proposals'
    BY <1>1, <1>2, <1>7, <1>8
  <1>13. TxSound(X)'
    BY <1>11, <1>12 DEF TxSound, Confirming
  <1>14. UNCHANGED stockVars /\ DOMAIN proposals \subseteq DOMAIN proposals'
    BY <1>2, <1>7
  <1>15. TxsSound'
    <2>1. TxsSound
      BY DEF InventoryInv
    <2>2. \A v \in Session \ {w} : \A t : t = tx[v] => TxSound(t)'
      BY <1>14, <2>1, TxProposals DEF TxsSound
    <2>3. \A v \in Session \ {w} : Compatible(tx[v], X)
      BY <1>11, ScanCompatible
    <2> QED BY <1>10, <1>13, <2>1, <2>2, <2>3, TxsStep
  <1>16. ScansSound'
    BY <1>6, <1>14 DEF InventoryInv, ScansSound
  <1>17. DuplicateOnlyIfCrowded'
    <2>1. ASSUME NEW p \in Pending', NEW q \in Pending', proposals'[p].sku = proposals'[q].sku, p # q
          PROVE  crowded'
      <3>1. /\ p \in 1..n \/ p = n + 1
            /\ q \in 1..n \/ q = n + 1
        BY <1>2, <1>7 DEF Pending
      <3>2. \A i \in 1..n : i \in Pending' => i \in Pending
        BY <1>6, <1>7 DEF Pending
      <3>3. CASE p \in 1..n /\ q \in 1..n
        <4>1. p \in Pending /\ q \in Pending /\ proposals[p].sku = proposals[q].sku
          BY <1>6, <2>1, <3>2, <3>3
        <4> QED BY <2>1, <4>1 DEF InventoryInv, DuplicateOnlyIfCrowded
      <3>4. CASE p = n + 1 /\ q \in 1..n
        <4>1. q \in Pending /\ proposals[q].sku = s
          BY <1>4, <1>6, <2>1, <3>2, <3>4
        <4> QED BY <4>1, OneOfSeveral
      <3>5. CASE q = n + 1 /\ p \in 1..n
        <4>1. p \in Pending /\ proposals[p].sku = s
          BY <1>4, <1>6, <2>1, <3>2, <3>5
        <4> QED BY <4>1, OneOfSeveral
      <3> QED BY <2>1, <3>1, <3>3, <3>4, <3>5
    <2> QED BY <2>1 DEF DuplicateOnlyIfCrowded
  <1> QED BY <1>14, <1>15, <1>16, <1>17, StockKept DEF InventoryInv

\* A scan handles a product.
LEMMA ScanNextInv ==
    ASSUME InventoryInv, NEW w \in Session, NEW s \in Sku, ScanNext(w, s)
    PROVE  InventoryInv'
  <1>1. tx[w].pc = "scan" /\ tx[w] \in Scanning /\ DOMAIN tx = Session
    BY ScanFacts, InFlight DEF ScanNext
  <1>2. UNCHANGED <<stockVars, sales, cards>>
    BY DEF ScanNext
  <1>3. PICK looked \in Looked :
          \/ /\ Covered(s, looked)
             /\ tx' = [tx EXCEPT ![w].todo = @ \ {s}]
             /\ UNCHANGED <<proposals, crowded>>
          \/ /\ ~Covered(s, looked) /\ Len(proposals) < MaxProposals
             /\ proposals' = Append(proposals, [sku |-> s, status |-> "PENDING"])
             /\ tx' = [tx EXCEPT ![w].todo = @ \ {s}, ![w].seeded = @ \cup ({s} \ sales),
                                 ![w].cards = @ \cup {[proposal |-> Len(proposals'),
                                                       status |-> "FAILED"]}]
             /\ crowded' = (crowded \/ Cardinality(Pending) > 1
                                    \/ \E v \in Session \ {w} : tx[v].pc = "scan")
    BY DEF ScanNext
  <1>4. CASE UNCHANGED <<proposals, crowded>> /\ tx' = [tx EXCEPT ![w].todo = @ \ {s}]
    <2>1. PICK T, D : T = tx[w].todo \ {s} /\ D = tx[w].seeded
      OBVIOUS
    <2>2. T \in SUBSET Sku /\ D \in SUBSET Sku
      BY <1>1, <2>1 DEF Scanning
    <2>3. PICK X : X = [tx[w] EXCEPT !.todo = T, !.seeded = D]
      OBVIOUS
    <2>4. tx' = [tx EXCEPT ![w] = X]
      BY <1>1, <1>4, <2>1, <2>3 DEF Scanning
    <2>5. UNCHANGED <<stockVars, sales, proposals, cards, crowded>>
      BY <1>2, <1>4
    <2> QED BY <1>1, <2>2, <2>3, <2>4, <2>5, ScanOn
  <1>5. CASE /\ ~Covered(s, looked)
             /\ proposals' = Append(proposals, [sku |-> s, status |-> "PENDING"])
             /\ tx' = [tx EXCEPT ![w].todo = @ \ {s}, ![w].seeded = @ \cup ({s} \ sales),
                                 ![w].cards = @ \cup {[proposal |-> Len(proposals'),
                                                       status |-> "FAILED"]}]
             /\ crowded \/ Cardinality(Pending) > 1 => crowded'
    BY <1>1, <1>2, <1>5, ScanProposes
  <1> QED BY <1>3, <1>4, <1>5

\* A scan commits its sales and its cards.
LEMMA CommitScanInv ==
    ASSUME InventoryInv, NEW w \in Session, CommitScan(w)
    PROVE  InventoryInv'
  <1>1. tx[w].pc = "scan" /\ tx[w] \in Scanning /\ \A c \in tx[w].cards : c.proposal \in DOMAIN proposals
    BY ScanFacts DEF CommitScan
  <1>2. /\ sales' = sales \cup tx[w].seeded /\ cards' = cards \cup tx[w].cards
        /\ tx' = [tx EXCEPT ![w] = Idle] /\ UNCHANGED stockVars
        /\ UNCHANGED proposals /\ UNCHANGED crowded
    BY DEF CommitScan
  <1>3. TxsSound'
    <2>1. TxsSound
      BY DEF InventoryInv
    <2>2. \A v \in Session \ {w} : \A t : t = tx[v] => TxSound(t)'
      BY <1>2, <2>1, TxProposals DEF TxsSound
    <2> QED BY <1>2, <2>1, <2>2, IdleFacts, TxsStep
  <1>4. ScansSound'
    BY <1>1, <1>2 DEF InventoryInv, ScansSound, Scanning
  <1>5. DuplicateOnlyIfCrowded'
    BY <1>2 DEF InventoryInv, DuplicateOnlyIfCrowded, Pending
  <1> QED BY <1>2, <1>3, <1>4, <1>5, StockKept DEF InventoryInv

\* The requests stay as they are.
LEMMA TxsSame ==
    ASSUME InventoryInv, UNCHANGED stockVars, UNCHANGED tx,
           DOMAIN proposals \subseteq DOMAIN proposals'
    PROVE  TxsSound'
  <1>1. ASSUME NEW v \in Session PROVE TxSound(tx[v])'
    <2>1. PICK t : t = tx[v]
      OBVIOUS
    <2>2. TxSound(t)'
      BY <2>1, InFlight, TxProposals
    <2>3. (t = tx[v])'
      BY <2>1
    <2> QED BY <2>2, <2>3
  <1>2. DOMAIN tx = Session /\ \A v, w \in Session : v # w => Compatible(tx[v], tx[w])
    BY DEF InventoryInv, TxsSound
  <1> QED BY <1>1, <1>2 DEF TxsSound

\* The merchant decides a proposal.
LEMMA DecideProposalInv ==
    ASSUME InventoryInv, NEW p, DecideProposal(p)
    PROVE  InventoryInv'
  <1>1. /\ p \in DOMAIN proposals /\ proposals' = [proposals EXCEPT ![p].status = "DECIDED"]
        /\ UNCHANGED stockVars /\ UNCHANGED sales /\ UNCHANGED cards /\ UNCHANGED crowded
        /\ UNCHANGED tx
    BY DEF DecideProposal, Pending
  <1>2. PICK n \in Nat : DOMAIN proposals = 1..n /\ n = Len(proposals)
    BY LenProperties DEF InventoryInv, ScansSound, Proposals
  <1>3. \A i \in DOMAIN proposals : proposals[i] \in [sku : Sku, status : {"PENDING", "DECIDED"}]
    BY <1>2, ElementOfSeq DEF InventoryInv, ScansSound, Proposals
  <1>4. /\ DOMAIN proposals' = DOMAIN proposals
        /\ \A i \in DOMAIN proposals :
             /\ proposals'[i] \in [sku : Sku, status : {"PENDING", "DECIDED"}]
             /\ proposals'[i].sku = proposals[i].sku
             /\ proposals'[i].status = "PENDING" => proposals[i].status = "PENDING"
    BY <1>1, <1>3
  <1>5. proposals' \in [1..n -> [sku : Sku, status : {"PENDING", "DECIDED"}]]
    <2>1. proposals' = [i \in 1..n |-> proposals'[i]]
      BY <1>1, <1>2
    <2> QED BY <1>2, <1>4, <2>1
  <1>6. proposals' \in Proposals
    <2>1. \A S : \A f \in [1..n -> S] : f \in Seq(S)
      BY SeqDef
    <2> QED BY <1>5, <2>1 DEF Proposals
  <1>7. ScansSound'
    BY <1>1, <1>4, <1>6 DEF InventoryInv, ScansSound
  <1>8. DuplicateOnlyIfCrowded'
    <2>1. \A i \in Pending' : i \in Pending /\ proposals'[i].sku = proposals[i].sku
      BY <1>4 DEF Pending
    <2> QED BY <1>1, <2>1 DEF InventoryInv, DuplicateOnlyIfCrowded
  <1>9. TxsSound'
    BY <1>1, <1>4, TxsSame
  <1> QED BY <1>1, <1>7, <1>8, <1>9, StockKept DEF InventoryInv

\* Nothing happens.
LEMMA StockStutter ==
    ASSUME InventoryInv, UNCHANGED inventoryVars
    PROVE  InventoryInv'
  <1>1. /\ UNCHANGED stockVars /\ UNCHANGED sales /\ UNCHANGED proposals /\ UNCHANGED cards
        /\ UNCHANGED crowded /\ UNCHANGED tx
    BY DEF inventoryVars, stockVars
  <1>2. TxsSound'
    BY <1>1, TxsSame
  <1>3. ScansSound' /\ DuplicateOnlyIfCrowded'
    BY <1>1 DEF InventoryInv, ScansSound, DuplicateOnlyIfCrowded, Pending
  <1> QED BY <1>1, <1>2, <1>3, StockKept DEF InventoryInv

\* Every step of every request keeps the invariant.
LEMMA StockStep == InventoryInv /\ [InventoryNext]_inventoryVars => InventoryInv'
  <1> SUFFICES ASSUME InventoryInv, [InventoryNext]_inventoryVars PROVE InventoryInv'
    OBVIOUS
  <1>1. ASSUME NEW w \in Session, NEW s \in Sku, NEW delta \in {-1, 1}, NEW key \in EventKey,
               ReadEvent(w, s, delta, key)
        PROVE  InventoryInv'
    BY <1>1, ReadEventInv
  <1>2. ASSUME NEW w \in Session, CommitEvent(w) PROVE InventoryInv'
    BY <1>2, CommitEventInv
  <1>3. ASSUME NEW w \in Session, NEW r \in Receipt, Begin(w, r) PROVE InventoryInv'
    BY <1>3, BeginInv
  <1>4. ASSUME NEW w \in Session, ListProducts(w) PROVE InventoryInv'
    BY <1>4, ListProductsInv
  <1>5. ASSUME NEW w \in Session, LockProducts(w) PROVE InventoryInv'
    BY <1>5, LockProductsInv
  <1>6. ASSUME NEW w \in Session, BookLine(w) PROVE InventoryInv'
    BY <1>6, BookLineInv
  <1>7. ASSUME NEW w \in Session, CommitReceipt(w) PROVE InventoryInv'
    BY <1>7, CommitReceiptInv
  <1>8. ASSUME NEW w \in Session, Abort(w) \/ AbortScan(w) PROVE InventoryInv'
    BY <1>8, AbortInv
  <1>9. ASSUME NEW w \in Session, Scan(w) PROVE InventoryInv'
    BY <1>9, ScanInv
  <1>10. ASSUME NEW w \in Session, CommitScan(w) PROVE InventoryInv'
    BY <1>10, CommitScanInv
  <1>11. ASSUME NEW w \in Session, NEW s \in Sku, ScanNext(w, s) PROVE InventoryInv'
    BY <1>11, ScanNextInv
  <1>12. ASSUME NEW w \in Session, NEW s \in Sku, ScanFails(w, s) PROVE InventoryInv'
    BY <1>12, ScanFailsInv
  <1>13. ASSUME NEW p \in DOMAIN proposals, DecideProposal(p) PROVE InventoryInv'
    BY <1>13, DecideProposalInv
  <1>14. CASE UNCHANGED inventoryVars
    BY <1>14, StockStutter
  <1> HIDE DEF InventoryInv
  <1> QED BY <1>1, <1>2, <1>3, <1>4, <1>5, <1>6, <1>7, <1>8, <1>9, <1>10, <1>11, <1>12, <1>13,
             <1>14 DEF InventoryNext

\* The tables fit each other, the locked rows stay as they were read, and what
\* every request has staged is counted on them.
THEOREM InventoryInvariant == InventorySpec => []InventoryInv
  BY StockInit, StockStep, PTL DEF InventorySpec

\* Whatever comes in at the same time, the stock is never negative and always
\* what the recorded events add up to.
THEOREM StockIsConsistent == InventorySpec => []StockConsistent
  <1>1. InventoryInv => StockConsistent
    <2> SUFFICES ASSUME InventoryInv PROVE StockConsistent
      OBVIOUS
    <2>1. /\ DOMAIN stock \subseteq DOMAIN products /\ DOMAIN products \subseteq Sku
          /\ \A s \in DOMAIN stock : stock[s] \in 0..MaxStock
      BY TableFacts
    <2>2. \A s \in DOMAIN products : products[s] \in Barcode \cup {NoBarcode}
      BY TableFacts, MapFacts DEF Barcodes
    <2>3. InventoryTypeOK
      BY <2>1, <2>2 DEF InventoryInv, TablesSound, ScansSound, Proposals, InventoryTypeOK
    <2> QED BY <2>3 DEF InventoryInv, StockConsistent
  <1> QED BY <1>1, InventoryInvariant, PTL

\* A receipt's lines are all in the ledger exactly when its answer is kept, and
\* once: confirm_receipt reserves its key before it works and commits all.
THEOREM ReceiptsAreBookedOnce == InventorySpec => []ReceiptBookedOnce
  <1>1. InventoryInv => ReceiptBookedOnce
    BY DEF InventoryInv
  <1> QED BY <1>1, InventoryInvariant, PTL

\* Two products share a barcode only after a product was inserted behind a
\* confirmation's back, or if one receipt gave both of them the barcode.
THEOREM SharedBarcodesAreExplained == InventorySpec => []SharedBarcodeExplained
  <1>1. InventoryInv => SharedBarcodeExplained
    BY DEF InventoryInv
  <1> QED BY <1>1, InventoryInvariant, PTL

\* A second open proposal for a product is asked for only when several rows
\* were pending or another scan ran: the scan looks at one row.
THEOREM DuplicatesNeedACrowd == InventorySpec => []DuplicateOnlyIfCrowded
  <1>1. InventoryInv => DuplicateOnlyIfCrowded
    BY DEF InventoryInv
  <1> QED BY <1>1, InventoryInvariant, PTL
=============================================================================
