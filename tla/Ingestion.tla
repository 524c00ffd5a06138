------------------------------ MODULE Ingestion ------------------------------
(***************************************************************************)
(* An order's way from POST /api/v1/orders to the events database, and a   *)
(* payment's from the gateway's webhook to fulfillment: the handlers of    *)
(* ingestion-api (usecase/order, usecase/webhook), both outbox tables, the *)
(* routing topology, and the two kinds of consumers.                       *)
(*                                                                         *)
(* The relay and the consumers are as abstract as the properties allow:    *)
(* the relay publishes a stored row one or more times                      *)
(* (AtLeastOnceDelivery, which OutboxDispatch implements, with a broker    *)
(* that is reachable in the end), and a consumer handles a message or has  *)
(* it retried (ShardConsumer).                                             *)
(***************************************************************************)
EXTENDS Routing, Naturals, Sequences

CONSTANTS
  Requests,      \* the POSTs clients may make: records [source, clientKey, name],
                 \* the first two as the sequences of words between their colons
  Kinds,         \* the kinds of events the gateway reports on a checkout
  Blank,         \* the empty event_type and event_subtype
  MaxRequests,   \* bound on the valid POSTs
  MaxDeliveries, \* MAX_DELIVERIES of the consumers
  MaxFailures    \* bound on the deliveries that fail

\* "session" events carry the session's metadata, "intent" events
\* (payment_intent.payment_failed) are about an object that has none.
ASSUME KindsAssumption    == Kinds \subseteq {"session", "intent"}
ASSUME BlankAssumption    == Blank \in Names \ Registry
ASSUME RequestsAssumption ==
  Requests \subseteq [source : {q.source : q \in Requests},
                      clientKey : {q.clientKey : q \in Requests},
                      name : Names]
ASSUME BoundsAssumption   == MaxRequests \in Nat /\ MaxFailures \in Nat

\* No message fails so often that its consumer rejects it to the DLQ: when that
\* happens, and to which messages, is the subject of ShardConsumer.
ASSUME DeliveriesAssumption == MaxDeliveries \in Nat /\ MaxFailures < MaxDeliveries

Ids    == 1..MaxRequests
Events == Ids \X Kinds

VARIABLES
  undeclared,   \* the shards outbox-worker has still to declare before it relays
  placed,       \* the requests answered with 201, in the order of their fresh ids
  orderRow,     \* the order_outbox row with each id
  orders,       \* the ids in the orders table, each with its open checkout
  eventRow,     \* the payment_event_outbox row of each event
  fulfilled,    \* the events IssueTickets has handled
  queued,       \* what is in the queues: pairs of a queue and a message
  failures      \* how many deliveries have failed

intakeVars   == <<placed, orderRow>>
webhookVars  == <<eventRow>>
consumerVars == <<orders, fulfilled>>
ingestionVars ==
  <<declared, undeclared, intakeVars, webhookVars, consumerVars, queued, failures>>

\* A message names the row it was made of.
OrderMessage(i) == [aggregate |-> "order", row |-> i]
EventMessage(e) == [aggregate |-> "payment_event", row |-> e]

Messages == {OrderMessage(i) : i \in Ids} \cup {EventMessage(e) : e \in Events}

\* Those a message may be in: with DeliveriesAssumption nothing is rejected, and
\* the DLQs stay empty.
QueueNames == {QueueFor(sh[1], sh[2]) : sh \in Shards}
              \cup {RetryQueueFor(sh[1], sh[2]) : sh \in Shards}

Source(i) == placed[i].source

IngestionTypeOK ==
  /\ undeclared \subseteq Shards
  /\ Shards \ undeclared \subseteq declared
  /\ declared \subseteq Shards
  /\ placed \in Seq([source : {q.source : q \in Requests},
                     clientKey : {q.clientKey : q \in Requests},
                     name : Registry])
  /\ Len(placed) <= MaxRequests
  /\ orderRow \in [Ids -> {"none", "NEW", "PUBLISHED", "PRUNED"}]
  /\ orders \subseteq 1..Len(placed)
  /\ eventRow \in [Events -> {"none", "NEW", "PUBLISHED"}]
  /\ fulfilled \subseteq Events
  /\ queued \subseteq QueueNames \X Messages
  /\ failures \in 0..MaxFailures

IngestionInit ==
  /\ declared = {}
  /\ undeclared = Shards
  /\ placed = <<>>
  /\ orderRow = [i \in Ids |-> "none"]
  /\ orders = {}
  /\ eventRow = [e \in Events |-> "none"]
  /\ fulfilled = {}
  /\ queued = {}
  /\ failures = 0

-----------------------------------------------------------------------------
(* Startup. *)

\* DeclareTopology in outbox-worker: the order stream first, and in each stream
\* the pairs of a Go map, in any order.
DeclareTopology ==
  /\ \E sh \in undeclared :
       /\ sh[1] = PaymentEventStream => \A t \in undeclared : t[1] = PaymentEventStream
       /\ DeclareShardQueue(sh[1], sh[2])
       /\ undeclared' = undeclared \ {sh}
  /\ UNCHANGED <<intakeVars, webhookVars, consumerVars, queued, failures>>

\* A consumer declares its own shard, before or after outbox-worker does.
DeclareQueue(sh) ==
  /\ DeclareShardQueue(sh[1], sh[2])
  /\ UNCHANGED <<undeclared, intakeVars, webhookVars, consumerVars, queued, failures>>

\* Mutant: the dispatch loops start next to the declaration.
RelayingEarly == TRUE

\* The dispatch loops start after DeclareTopology.
Relaying == undeclared = {}

-----------------------------------------------------------------------------
(* ingestion-api. *)

\* Mutant: the client's key replaces the order's identity.
ComputeKeyOfClient(source, clientKey) == clientKey

\* The idempotency key of an order before it is hashed: the two are joined with a
\* colon, and nothing keeps colons out of them.
ComputeKey(source, clientKey) == source \o clientKey

KeyOf(q) == ComputeKey(q.source, q.clientKey)

\* Mutant: the pair is stored as the client spelled it.
AsSpelled(q) == q

\* The handler's strings.ToUpper of the event type and subtype.
Normalised(q) == [q EXCEPT !.name = ToUpper[@]]

\* Validate requires both parts of the pair, ValidateEventType that it is registered.
Validate(q) == q.name # Blank /\ IsValidEventType(ToUpper[q.name])

\* PlaceOrder.Execute: a fresh id is minted for each request; the row with it is
\* not stored if another has its idempotency key, and the 201, "accepted" or
\* "duplicate", names the fresh id either way.  Whether the answer reaches the
\* client is left out: a client may repeat itself anyway.
PlaceOrder(q) ==
  LET id == Len(placed) + 1 IN
  /\ id \in Ids
  /\ placed' = Append(placed, q)
  /\ orderRow' =
       IF \E i \in 1..Len(placed) :
            orderRow[i] \in {"NEW", "PUBLISHED"} /\ KeyOf(placed[i]) = KeyOf(q)
       THEN orderRow ELSE [orderRow EXCEPT ![id] = "NEW"]
  /\ UNCHANGED <<declared, undeclared, webhookVars, consumerVars, queued, failures>>

\* OrderHandler.Handle: a request that fails validation is answered 400, one whose
\* transaction fails 500, and neither changes anything.
HandleOrder(q) == Validate(q) /\ PlaceOrder(Normalised(q))

\* ReceivePaymentEvent.Execute: the event is stored unless a row with its raw
\* event id is there, and answered 200 whatever its event type is.
ReceivePaymentEvent(e) ==
  /\ eventRow[e] = "none"
  /\ eventRow' = [eventRow EXCEPT ![e] = "NEW"]
  /\ UNCHANGED <<declared, undeclared, intakeVars, consumerVars, queued, failures>>

\* WebhookHandler.Handle for an event that VerifyWebhook accepts; any other is
\* answered 400.  The gateway reports on an open checkout and may repeat itself.
HandleWebhook(e) == e[1] \in orders /\ ReceivePaymentEvent(e)

-----------------------------------------------------------------------------
(* The relay. *)

\* Mutant: CreateCheckout hands the gateway no metadata to give back.
EventTypeOfUnlabelled(e) == Blank

\* The event type of an event: the metadata CreateCheckout gave the session.
EventTypeOf(e) == IF e[2] = "session" THEN placed[e[1]].name ELSE Blank

\* The row's event type, with the stream of its aggregate type, is the key.
KeyOfMessage(m) ==
  RoutingKeyFor(StreamForAggregateType(m.aggregate),
                IF m.aggregate = "order" THEN placed[m.row].name ELSE EventTypeOf(m.row))

Publish(m) == queued' = queued \cup {<<q, m>> : q \in Routes(Exchange, KeyOfMessage(m))}

\* A row whose publish succeeds is marked, or, if the mark fails, published once
\* more later.  Publishes that fail, and the marks of those (MarkRetrying,
\* MarkDeadLetter), are the subject of OutboxDispatch.
PublishOrder(i, marked) ==
  /\ Relaying
  /\ orderRow[i] = "NEW"
  /\ Publish(OrderMessage(i))
  /\ orderRow' = IF marked THEN [orderRow EXCEPT ![i] = "PUBLISHED"] ELSE orderRow
  /\ UNCHANGED <<declared, undeclared, placed, webhookVars, consumerVars, failures>>

PublishEvent(e, marked) ==
  /\ Relaying
  /\ eventRow[e] = "NEW"
  /\ Publish(EventMessage(e))
  /\ eventRow' = IF marked THEN [eventRow EXCEPT ![e] = "PUBLISHED"] ELSE eventRow
  /\ UNCHANGED <<declared, undeclared, intakeVars, consumerVars, failures>>

\* The prune makes room for another row with the same idempotency key.
PruneOrder(i) ==
  /\ orderRow[i] = "PUBLISHED"
  /\ orderRow' = [orderRow EXCEPT ![i] = "PRUNED"]
  /\ UNCHANGED <<declared, undeclared, placed, webhookVars, consumerVars,
                 queued, failures>>

-----------------------------------------------------------------------------
(* The consumers. *)

\* CONSUMER_QUEUE is parsed at startup, and the binary of the other stream
\* refuses to start with it.
ConsumedBy(stream, m) ==
  /\ m \in queued
  /\ \E sh \in ParseQueueName(m[1]) : sh[1] = stream

\* The delivery is acked, or the ack is lost and the message delivered again.
Settle(m) == queued' = queued \ {m} \/ UNCHANGED queued

\* ProcessOrder: ON CONFLICT DO NOTHING covers the id and source_order_id.
ProcessOrder(m) ==
  /\ ConsumedBy(OrderStream, m)
  /\ m[2].aggregate = "order"
  /\ orders' = IF \E i \in orders : Source(i) = Source(m[2].row)
               THEN orders ELSE orders \cup {m[2].row}
  /\ Settle(m)
  /\ UNCHANGED <<declared, undeclared, intakeVars, webhookVars, fulfilled, failures>>

IssueTickets(m) ==
  /\ ConsumedBy(PaymentEventStream, m)
  /\ m[2].aggregate = "payment_event"
  /\ fulfilled' = fulfilled \cup {m[2].row}
  /\ Settle(m)
  /\ UNCHANGED <<declared, undeclared, intakeVars, webhookVars, orders, failures>>

\* A delivery fails and is requeued on the shard's retry queue; it is not the
\* message's last one (DeliveriesAssumption).
Fail(m) ==
  /\ failures < MaxFailures
  /\ failures' = failures + 1
  /\ m \in queued
  /\ \E sh \in ParseQueueName(m[1]) :
       queued' = (queued \ {m}) \cup {<<RetryQueueFor(sh[1], sh[2]), m[2]>>}
  /\ UNCHANGED <<declared, undeclared, intakeVars, webhookVars, consumerVars>>

\* Its TTL runs out there, and the broker dead-letters it.
Expire(m) ==
  /\ m \in queued
  /\ m[1][3] = "retry"
  /\ queued' = (queued \ {m}) \cup {<<q, m[2]>> : q \in DeadLetterRoutes(m[1])}
  /\ UNCHANGED <<declared, undeclared, intakeVars, webhookVars, consumerVars, failures>>

Consumer(m) == ProcessOrder(m) \/ IssueTickets(m)

-----------------------------------------------------------------------------

IngestionNext ==
  \/ DeclareTopology
  \/ \E sh \in Shards : DeclareQueue(sh)
  \/ \E q \in Requests : HandleOrder(q)
  \/ \E e \in Events : HandleWebhook(e)
  \/ \E marked \in BOOLEAN :
       \/ \E i \in Ids : PublishOrder(i, marked)
       \/ \E e \in Events : PublishEvent(e, marked)
  \/ \E i \in Ids : PruneOrder(i)
  \/ \E m \in queued : Consumer(m) \/ Fail(m) \/ Expire(m)

IngestionSpec == IngestionInit /\ [][IngestionNext]_ingestionVars

\* outbox-worker comes up, publishes every row in the end and manages to mark it,
\* consumers handle what is in their queues, the broker expires.  Nothing is
\* asked of clients, the gateway or the prune.
IngestionFairness ==
  /\ WF_ingestionVars(DeclareTopology)
  /\ WF_ingestionVars(\/ \E i \in Ids : PublishOrder(i, TRUE)
                      \/ \E e \in Events : PublishEvent(e, TRUE))
  /\ WF_ingestionVars(\E m \in queued : Consumer(m))
  /\ WF_ingestionVars(\E m \in queued : Expire(m))

FairIngestionSpec == IngestionSpec /\ IngestionFairness

-----------------------------------------------------------------------------
(* Properties. *)

InSomeQueue(m) == \E p \in queued : p[2] = m

\* No two orders' keys are spelled alike.  The requests of the instances checked
\* are so; clients with colons in their ids need not be.
KeysApart ==
  \A q, r \in Requests : \A k, l \in {p.clientKey : p \in Requests} :
    ComputeKey(q.source, k) = ComputeKey(r.source, l) => q.source = r.source

\* An order that was answered with 201 is never dropped on its way: at every
\* moment a row of its source waits to be published, or its message is in a
\* queue, or it is an order, however requests, prune and startup interleave.
AcceptedIsKept ==
  \A i \in 1..Len(placed) : \E j \in 1..Len(placed) :
    /\ Source(j) = Source(i)
    /\ orderRow[j] = "NEW" \/ InSomeQueue(OrderMessage(j)) \/ j \in orders

KeptEvent(e) ==
  eventRow[e] # "none" => \/ eventRow[e] = "NEW"
                          \/ InSomeQueue(EventMessage(e))
                          \/ e \in fulfilled

\* The confirmation of a checkout session finds its way through the gateway's
\* metadata back to a bound shard: once answered 200 it is never dropped.
PaymentsKept == \A e \in Events : e[2] = "session" => KeptEvent(e)

\* "rather than silently dropping an event type we don't yet act on"
\* (stripe.go): no webhook that was answered 200 is dropped.
WebhooksKept == \A e \in Events : KeptEvent(e)

\* Every order answered with 201 becomes a row of orders with an open checkout.
\* (Orders stay, so once all of them are there each one has got there.)
AcceptedBecomesOrder ==
  []<>(\A i \in 1..Len(placed) : \E o \in orders : Source(o) = Source(i))

\* Every payment reported on a session gets to fulfillment.
PaymentsReported ==
  []<>(\A e \in Events : e[2] = "session" /\ eventRow[e] # "none" => e \in fulfilled)
=============================================================================
