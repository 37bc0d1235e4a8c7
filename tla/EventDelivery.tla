---------------------------- MODULE EventDelivery ----------------------------
(***************************************************************************)
(* How a committed change reaches the app: OutboxEvent rows, the workers    *)
(* that publish them (infrastructure/events/outbox.py), Redis pub/sub, the  *)
(* bridge to the websocket hub, and the RealtimeCoordinator of one client,  *)
(* which drops duplicates and refetches over HTTP.  Redis pub/sub keeps     *)
(* nothing: what is published while the bridge is not subscribed is gone.   *)
(*                                                                         *)
(* An event is named by its place in the order of created_at; rows may be   *)
(* committed in another order.  The attempts counter of a row is written    *)
(* and never read, and is left out.                                        *)
(***************************************************************************)
EXTENDS Naturals, Sequences, SequencesExt, FiniteSetsExt

CONSTANTS
    MaxEvents,   \* bound on the events of the merchant
    Worker,      \* publish_outbox jobs that may run at the same time
    Limit,       \* limit of publish_batch
    Capacity,    \* capacity of RealtimeEventDeduplicator
    MaxFaults    \* bound on failures of workers, Redis, bridge and sockets

ASSUME DeliveryAssumption ==
    /\ MaxEvents \in Nat
    /\ Limit \in Nat \ {0}
    /\ Capacity \in Nat \ {0}
    /\ MaxFaults \in Nat

VARIABLES
    rows,        \* committed OutboxEvent rows
    published,   \* those with published_at set
    batch,       \* rows each worker has locked
    todo,        \* of these, the ones it has not come to
    sent,        \* of these, the ones whose publication succeeded
    sends,       \* history: how often each event was handed to Redis
    resend,      \* history: handed to Redis by a call or job that then failed
    subscribed,  \* the bridge listens
    channel,     \* published and not yet forwarded by the bridge
    missed,      \* history: handed to Redis and never forwarded, since the
                 \* client's last full refetch
    socket,      \* "down", "up", or "dead": broken, unknown to the client
    wire,        \* sent on the socket and not yet received
    resync,      \* REALTIME_RESYNC_REQUIRED is due
    seen,        \* the ids the deduplicator remembers, oldest first
    view,        \* the changes the client's screens reflect
    faults

outboxVars == <<rows, published, batch, todo, sent>>
bridgeVars == <<subscribed, channel>>
clientVars == <<socket, wire, resync, seen, view>>
vars == <<outboxVars, sends, resend, bridgeVars, missed, clientVars, faults>>

-----------------------------------------------------------------------------
EventId == 1..MaxEvents

Locked == UNION {batch[w] : w \in Worker}

Fault == faults < MaxFaults /\ faults' = faults + 1

\* Rows of a business transaction are committed with the change itself.
CommitChange(e) ==
    /\ e \notin rows
    /\ rows' = rows \cup {e}
    /\ UNCHANGED <<published, batch, todo, sent, sends, resend, bridgeVars,
                   missed, clientVars, faults>>

\* The n first elements of a set of rows in the order of created_at.
First(n, S) == {e \in S : Cardinality({d \in S : d <= e}) <= n}

\* Mutant of Selected: without SKIP LOCKED (and without waiting).
SelectedAnyLock == First(Limit, rows \ published)

\* The query of publish_batch: SKIP LOCKED rows do not count for the limit.
Selected == First(Limit, (rows \ published) \ Locked)

\* Mutant of Take: the job waits for a full batch.
TakeFull(w) ==
    /\ batch[w] = {}
    /\ Cardinality(Selected) = Limit
    /\ batch' = [batch EXCEPT ![w] = Selected]
    /\ todo' = [todo EXCEPT ![w] = Selected]
    /\ UNCHANGED <<rows, published, sent, sends, resend, bridgeVars, missed,
                   clientVars, faults>>

Take(w) ==
    /\ batch[w] = {}
    /\ Selected # {}
    /\ batch' = [batch EXCEPT ![w] = Selected]
    /\ todo' = [todo EXCEPT ![w] = Selected]
    /\ UNCHANGED <<rows, published, sent, sends, resend, bridgeVars, missed,
                   clientVars, faults>>

\* redis.publish reaches whoever is subscribed at that moment, and reports no
\* error if nobody is.
HandOver(e) ==
    /\ sends' = [sends EXCEPT ![e] = @ + 1]
    /\ channel' = IF subscribed THEN Append(channel, e) ELSE channel
    /\ missed' = IF subscribed THEN missed ELSE missed \cup {e}

Publish(w) ==
    /\ todo[w] # {}
    /\ LET e == Min(todo[w])
       IN  /\ HandOver(e)
           /\ todo' = [todo EXCEPT ![w] = @ \ {e}]
           /\ sent' = [sent EXCEPT ![w] = @ \cup {e}]
    /\ UNCHANGED <<rows, published, batch, resend, subscribed, clientVars, faults>>

\* The call raises, before or after Redis has taken the message; the row is
\* kept for a later batch.
PublishFails(w) ==
    /\ Fault
    /\ todo[w] # {}
    /\ LET e == Min(todo[w])
       IN  /\ todo' = [todo EXCEPT ![w] = @ \ {e}]
           /\ \/ HandOver(e) /\ resend' = resend \cup {e}
              \/ UNCHANGED <<sends, channel, missed, resend>>
    /\ UNCHANGED <<rows, published, batch, sent, subscribed, clientVars>>

Release(w) ==
    /\ batch' = [batch EXCEPT ![w] = {}]
    /\ todo' = [todo EXCEPT ![w] = {}]
    /\ sent' = [sent EXCEPT ![w] = {}]

\* publish_outbox: the end of session.begin().
CommitBatch(w) ==
    /\ batch[w] # {}
    /\ todo[w] = {}
    /\ published' = published \cup sent[w]
    /\ Release(w)
    /\ UNCHANGED <<rows, sends, resend, bridgeVars, missed, clientVars, faults>>

\* The job times out, or the worker or its connection is lost.
WorkerLost(w) ==
    /\ Fault
    /\ batch[w] # {}
    /\ resend' = resend \cup sent[w]
    /\ Release(w)
    /\ UNCHANGED <<rows, published, sends, bridgeVars, missed, clientVars>>

-----------------------------------------------------------------------------
(* RedisRealtimeBridge and RealtimeHub.                                     *)

BridgeDown ==
    /\ Fault
    /\ subscribed
    /\ subscribed' = FALSE
    /\ missed' = missed \cup ToSet(channel)
    /\ channel' = <<>>
    /\ UNCHANGED <<outboxVars, sends, resend, clientVars>>

BridgeUp ==
    /\ ~subscribed
    /\ subscribed' = TRUE
    /\ UNCHANGED <<outboxVars, sends, resend, channel, missed, clientVars, faults>>

\* A message for the merchant's sockets.  A send on a dead socket fails or is
\* lost on the way, and the hub drops the socket.
Forward ==
    /\ channel # <<>>
    /\ channel' = Tail(channel)
    /\ wire' = IF socket = "up" THEN Append(wire, Head(channel)) ELSE wire
    /\ UNCHANGED <<outboxVars, sends, resend, subscribed, missed, socket, resync,
                   seen, view, faults>>

-----------------------------------------------------------------------------
(* RealtimeCoordinator.                                                     *)

\* Mutant of Connect: no resynchronisation after a reconnect.
ConnectOnly ==
    /\ socket = "down"
    /\ socket' = "up"
    /\ UNCHANGED <<outboxVars, sends, resend, bridgeVars, missed, wire, resync, seen,
                   view, faults>>

\* The hub registers the socket, the client's channel is ready.
Connect ==
    /\ socket = "down"
    /\ socket' = "up"
    /\ resync' = TRUE
    /\ UNCHANGED <<outboxVars, sends, resend, bridgeVars, missed, wire, seen, view, faults>>

\* REALTIME_RESYNC_REQUIRED comes before the first message: every provider is
\* invalidated and refetched.
Resync ==
    /\ resync
    /\ resync' = FALSE
    /\ view' = rows
    /\ missed' = {}
    /\ UNCHANGED <<outboxVars, sends, resend, bridgeVars, socket, wire, seen, faults>>

\* RealtimeEventDeduplicator.accept
Remember(e) == IF Len(seen) < Capacity THEN Append(seen, e) ELSE Append(Tail(seen), e)

\* A new event invalidates its targets, and the refetch shows at least the
\* change it announces.
Receive ==
    /\ wire # <<>>
    /\ ~resync
    /\ socket = "up"
    /\ wire' = Tail(wire)
    /\ \/ /\ Head(wire) \in ToSet(seen)
          /\ UNCHANGED <<seen, view>>
       \/ /\ Head(wire) \notin ToSet(seen)
          /\ seen' = Remember(Head(wire))
          /\ view' = view \cup {Head(wire)}
    /\ UNCHANGED <<outboxVars, sends, resend, bridgeVars, missed, socket, resync, faults>>

\* The network breaks; what was on the wire is lost.
Break ==
    /\ Fault
    /\ socket = "up"
    /\ socket' = "dead"
    /\ wire' = <<>>
    /\ UNCHANGED <<outboxVars, sends, resend, bridgeVars, missed, resync, seen, view>>

\* A missing pong tells the client; it will reconnect.
Notice ==
    /\ socket = "dead"
    /\ socket' = "down"
    /\ resync' = FALSE
    /\ UNCHANGED <<outboxVars, sends, resend, bridgeVars, missed, wire, seen, view, faults>>

\* The app goes to the background: the coordinator is closed, and a new one,
\* with an empty deduplicator, is made in the foreground.
Background ==
    /\ Fault
    /\ socket # "down"
    /\ socket' = "down"
    /\ wire' = <<>>
    /\ resync' = FALSE
    /\ seen' = <<>>
    /\ UNCHANGED <<outboxVars, sends, resend, bridgeVars, missed, view>>

-----------------------------------------------------------------------------
Init ==
    /\ rows = {} /\ published = {}
    /\ batch = [w \in Worker |-> {}]
    /\ todo = [w \in Worker |-> {}]
    /\ sent = [w \in Worker |-> {}]
    /\ sends = [e \in EventId |-> 0]
    /\ resend = {}
    /\ subscribed = FALSE /\ channel = <<>>
    /\ missed = {}
    /\ socket = "down" /\ wire = <<>> /\ resync = FALSE
    /\ seen = <<>> /\ view = {}
    /\ faults = 0

JobStep(w) == Take(w) \/ Publish(w) \/ CommitBatch(w)

DeliveryStep == BridgeUp \/ Forward \/ Resync \/ Receive \/ Notice \/ Connect

Next ==
    \/ \E e \in EventId : CommitChange(e)
    \/ \E w \in Worker : JobStep(w) \/ PublishFails(w) \/ WorkerLost(w)
    \/ DeliveryStep
    \/ BridgeDown \/ Break \/ Background

Spec == Init /\ [][Next]_vars

\* The cron job runs every ten seconds, bridge and client retry for ever, and
\* messages move on.  Failures are not fair, and end after MaxFaults.
FairSpec ==
    /\ Spec
    /\ \A w \in Worker : WF_vars(JobStep(w))
    /\ WF_vars(BridgeUp) /\ WF_vars(Forward)
    /\ WF_vars(Resync) /\ WF_vars(Receive) /\ WF_vars(Notice) /\ WF_vars(Connect)

-----------------------------------------------------------------------------
(* Properties.                                                              *)

\* Rows, jobs, queues and the client's memory hold values of their types;
\* the deduplicator never holds more ids than its capacity.
TypeOK ==
    /\ rows \subseteq EventId /\ published \subseteq rows
    /\ \A f \in {batch, todo, sent} : f \in [Worker -> SUBSET EventId]
    /\ sends \in [EventId -> Nat]
    /\ resend \subseteq EventId /\ missed \subseteq EventId
    /\ subscribed \in BOOLEAN /\ resync \in BOOLEAN
    /\ channel \in Seq(EventId) /\ wire \in Seq(EventId) /\ seen \in Seq(EventId)
    /\ Len(seen) <= Capacity
    /\ socket \in {"down", "up", "dead"}
    /\ view \subseteq rows
    /\ faults \in Nat

\* No row is ever in the hands of two jobs, or of a job after it was marked.
JobsDisjoint ==
    \A w \in Worker :
       /\ batch[w] \cap published = {}
       /\ \A v \in Worker \ {w} : batch[v] \cap batch[w] = {}

\* A row is marked as published only after Redis has taken it.
MarkedMeansSent == \A e \in published : sends[e] > 0

\* An event is handed to Redis again only after a call or a job that had sent
\* it failed: overlapping jobs alone never duplicate events.
ResentOnlyAfterFailure == \A e \in EventId : sends[e] > 1 => e \in resend

\* The outbox's promise: overlapping jobs never hold one row, a mark means a
\* publication, and a repetition means a failure.
PublishedHonestly == TypeOK /\ JobsDisjoint /\ MarkedMeansSent /\ ResentOnlyAfterFailure

\* The client is connected and everything on the way to it has arrived.
Quiet == /\ socket = "up" /\ ~resync
         /\ channel = <<>> /\ wire = <<>>

\* Once everything is published and has arrived, a connected client shows
\* every change, except what went past the bridge since it connected.
StaleOnlyIfMissed ==
    Quiet /\ rows = published => rows \ view \subseteq missed

\* Every committed change reaches the client in the end, unless the bridge
\* missed it.
ChangesArrive ==
    \A e \in EventId : e \in rows ~> e \in view \/ e \in missed

=============================================================================
