--------------------------- MODULE IngestionProofs ---------------------------
(***************************************************************************)
(* Nothing that was answered with 201 or, for a session event, 200 is      *)
(* dropped between the two databases, for every registry of event types,   *)
(* any requests and any order of startup, publishing, pruning and failures. *)
(* For orders this needs that no two of them share an idempotency key.     *)
(***************************************************************************)
EXTENDS Ingestion, TLAPS

-----------------------------------------------------------------------------
(* The topology. *)

LEMMA StreamsApart ==
  ASSUME NEW s \in Streams, NEW t \in Streams
  PROVE  /\ s.queuePrefix = t.queuePrefix => s = t
         /\ s.routingPrefix = t.routingPrefix => s = t
BY DEF Streams, OrderStream, PaymentEventStream

LEMMA NamesApart ==
  ASSUME NEW m \in Registry, NEW n \in Registry, ToLower[m] = ToLower[n]
  PROVE  m = n
BY CaseAssumption, NamesAssumption

\* A consumer finds in the name of its queue exactly the shard the queue was
\* declared for (ParseQueueName's comment), so that its retries go back to it.
THEOREM ParseQueueNameInverts ==
  ASSUME NEW s \in Streams, NEW n \in Registry
  PROVE  ParseQueueName(QueueFor(s, n)) = {<<s, n>>}
<1>1. <<s, n>> \in ParseQueueName(QueueFor(s, n))
  BY DEF ParseQueueName, QueueOf, Shards
<1>2. ASSUME NEW sh \in ParseQueueName(QueueFor(s, n))
      PROVE  sh = <<s, n>>
  <2>1. sh \in Shards /\ sh[1] \in Streams /\ sh[2] \in Registry
    BY DEF ParseQueueName, Shards
  <2>2. QueueFor(sh[1], sh[2]) = QueueFor(s, n)
    BY <2>1 DEF ParseQueueName, QueueOf
  <2>3. sh[1].queuePrefix = s.queuePrefix /\ ToLower[sh[2]] = ToLower[n]
    BY <2>2 DEF QueueFor
  <2>. QED  BY <2>1, <2>3, StreamsApart, NamesApart DEF Shards
<1>. QED  BY <1>1, <1>2

\* The main exchange leads to main queues of declared shards only.
LEMMA RoutesDeclared ==
  ASSUME declared \subseteq Shards, NEW key, NEW q \in Routes(Exchange, key)
  PROVE  \E sh \in declared : q = QueueFor(sh[1], sh[2])
<1>1. PICK b \in Bindings : b.exchange = Exchange /\ b.queue = q
  BY DEF Routes
<1>2. PICK sh \in declared : b \in ShardBindings(sh[1], sh[2])
  BY <1>1 DEF Bindings, BindingsOf
<1>. QED  BY <1>1, <1>2 DEF ShardBindings, Binding, Exchange, DLX

\* A declared shard's routing key leads to its queue.
LEMMA RouteOfShard ==
  ASSUME declared \subseteq Shards, NEW s, NEW n, <<s, n>> \in declared
  PROVE  QueueFor(s, n) \in Routes(Exchange, RoutingKeyFor(s, n))
<1>. DEFINE b == Binding(Exchange, RoutingKeyFor(s, n), QueueFor(s, n))
<1>1. b \in ShardBindings(s, n)
  BY DEF ShardBindings
<1>2. b \in Bindings
  <2>1. BindingsOf[<<s, n>>] = ShardBindings(s, n)
    BY DEF BindingsOf
  <2>. HIDE DEF b
  <2>. QED  BY <1>1, <2>1 DEF Bindings
<1>3. b.exchange = Exchange /\ b.key = RoutingKeyFor(s, n) /\ b.queue = QueueFor(s, n)
  BY DEF Binding
<1>. QED  BY <1>2, <1>3 DEF Routes

\* What expires in a declared shard's retry queue goes to a declared main queue,
\* and to one at least.
LEMMA RetryReturns ==
  ASSUME declared \subseteq Shards, NEW sh \in declared
  PROVE  LET back == DeadLetterRoutes(RetryQueueFor(sh[1], sh[2])) IN
         /\ back # {}
         /\ \A q \in back : \E t \in declared : q = QueueFor(t[1], t[2])
<1>. DEFINE name == RetryQueueFor(sh[1], sh[2])
            r == Queue(name, Exchange, RoutingKeyFor(sh[1], sh[2]))
<1>1. sh = <<sh[1], sh[2]>> /\ sh \in Shards
  BY DEF Shards
<1>2. r \in Queues
  <2>1. r \in ShardQueues(sh[1], sh[2])
    BY DEF ShardQueues
  <2>2. QueuesOf[sh] = ShardQueues(sh[1], sh[2])
    BY <1>1 DEF QueuesOf
  <2>. HIDE DEF r
  <2>. QED  BY <2>1, <2>2 DEF Queues
<1>3. r.name = name /\ r.deadExchange = Exchange /\ r.deadKey = RoutingKeyFor(sh[1], sh[2])
  BY DEF Queue
<1>4. QueueFor(sh[1], sh[2]) \in DeadLetterRoutes(name)
  <2>1. QueueFor(sh[1], sh[2]) \in Routes(r.deadExchange, r.deadKey)
    BY <1>1, <1>3, RouteOfShard
  <2>. HIDE DEF r, name
  <2>. QED  BY <1>2, <1>3, <2>1 DEF DeadLetterRoutes
<1>5. ASSUME NEW q \in DeadLetterRoutes(name)
      PROVE  \E t \in declared : q = QueueFor(t[1], t[2])
  <2>1. PICK p \in Queues : p.name = name /\ q \in Routes(p.deadExchange, p.deadKey)
    BY DEF DeadLetterRoutes
  <2>2. PICK t \in declared : p \in ShardQueues(t[1], t[2])
    BY <2>1 DEF Queues, QueuesOf
  <2>3. p.deadExchange = Exchange
    <3>1. p.name[3] = "retry"
      BY <2>1 DEF RetryQueueFor
    <3>2. CASE p = Queue(DLQFor(t[1], t[2]), "", <<>>)
      BY <3>1, <3>2 DEF Queue, DLQFor
    <3>3. CASE p = Queue(QueueFor(t[1], t[2]), DLX, DLXRoutingKeyFor(t[1], t[2]))
      BY <3>1, <3>3 DEF Queue, QueueFor
    <3>4. CASE p = Queue(RetryQueueFor(t[1], t[2]), Exchange, RoutingKeyFor(t[1], t[2]))
      BY <3>4 DEF Queue
    <3>. QED  BY <2>2, <3>2, <3>3, <3>4 DEF ShardQueues
  <2>. QED  BY <2>1, <2>3, RoutesDeclared
<1>. QED  BY <1>4, <1>5

-----------------------------------------------------------------------------
(* The invariant. *)

OnItsWay(i) ==
  InSomeQueue(OrderMessage(i)) \/ \E o \in orders : Source(o) = Source(i)

\* Which rows exist, and where what was published is.
RowsOK ==
  KeysApart => \A i \in 1..Len(placed) :
    /\ orderRow[i] \in {"PUBLISHED", "PRUNED"} => OnItsWay(i)
    /\ orderRow[i] = "none" =>
         \E j \in 1..Len(placed) : Source(j) = Source(i) /\ orderRow[j] # "none"

EventsOK ==
  \A e \in Events :
    /\ eventRow[e] # "none" => e[1] \in orders
    /\ e[2] = "session" /\ eventRow[e] = "PUBLISHED" =>
         InSomeQueue(EventMessage(e)) \/ e \in fulfilled

UnusedOK == \A i \in Ids : i > Len(placed) => orderRow[i] = "none"

\* The queues in use are queues of declared shards.
QueuesOK ==
  \A m \in queued :
    /\ \E sh \in declared :
         m[1] = QueueFor(sh[1], sh[2]) \/ m[1] = RetryQueueFor(sh[1], sh[2])
    /\ m[2].aggregate = "order" => m[2].row \in 1..Len(placed)

Valid == [source : {q.source : q \in Requests},
          clientKey : {q.clientKey : q \in Requests},
          name : Registry]

IngestionTypes ==
  /\ undeclared \subseteq Shards
  /\ Shards \ undeclared \subseteq declared
  /\ declared \subseteq Shards
  /\ placed \in Seq(Valid)
  /\ Len(placed) <= MaxRequests
  /\ orderRow \in [Ids -> {"none", "NEW", "PUBLISHED", "PRUNED"}]
  /\ orders \subseteq 1..Len(placed)
  /\ eventRow \in [Events -> {"none", "NEW", "PUBLISHED"}]
  /\ \A m \in queued : m = <<m[1], m[2]>> /\ m[2] \in Messages

KeptInv == IngestionTypes /\ RowsOK /\ UnusedOK /\ EventsOK /\ QueuesOK

LEMMA KeptInvInit == IngestionInit => KeptInv
BY BoundsAssumption
   DEF IngestionInit, KeptInv, IngestionTypes, RowsOK, UnusedOK, EventsOK, QueuesOK

LEMMA KeptInvImplies == KeptInv => (KeysApart => AcceptedIsKept) /\ PaymentsKept
<1>. SUFFICES ASSUME KeptInv
              PROVE  (KeysApart => AcceptedIsKept) /\ PaymentsKept
  OBVIOUS
<1>. USE DEF KeptInv
<1>1. ASSUME KeysApart, NEW j \in 1..Len(placed), orderRow[j] # "none"
      PROVE  \E k \in 1..Len(placed) :
               /\ Source(k) = Source(j)
               /\ orderRow[k] = "NEW" \/ InSomeQueue(OrderMessage(k)) \/ k \in orders
  <2>1. orderRow[j] \in {"NEW", "PUBLISHED", "PRUNED"}
    BY <1>1, BoundsAssumption DEF IngestionTypes, Ids
  <2>2. CASE orderRow[j] = "NEW"
    BY <2>2
  <2>3. CASE OnItsWay(j)
    BY <2>3 DEF OnItsWay, IngestionTypes
  <2>. QED  BY <1>1, <2>1, <2>2, <2>3 DEF RowsOK
<1>2. KeysApart => AcceptedIsKept
  BY <1>1 DEF AcceptedIsKept, RowsOK
<1>3. PaymentsKept
  BY DEF PaymentsKept, KeptEvent, EventsOK, IngestionTypes
<1>. QED  BY <1>2, <1>3

-----------------------------------------------------------------------------
(* The steps. *)

\* A step that leaves the tables alone and only moves messages between queues of
\* declared shards, or adds some, keeps the invariant.
LEMMA MovesKeep ==
  ASSUME KeptInv,
         UNCHANGED <<placed, orderRow, eventRow, orders, fulfilled>>,
         undeclared' \subseteq undeclared, Shards \ undeclared' \subseteq declared',
         declared \subseteq declared', declared' \subseteq Shards,
         \A m \in queued' :
           /\ m = <<m[1], m[2]>>
           /\ \E p \in queued : p[2] = m[2]
           /\ \E sh \in declared' :
                m[1] = QueueFor(sh[1], sh[2]) \/ m[1] = RetryQueueFor(sh[1], sh[2]),
         \A p \in queued : \E m \in queued' : m[2] = p[2]
  PROVE  KeptInv'
<1>. USE DEF KeptInv
<1>1. ASSUME NEW msg
      PROVE  InSomeQueue(msg) => InSomeQueue(msg)'
  BY DEF InSomeQueue
<1>2. IngestionTypes'
  BY DEF IngestionTypes
<1>3. RowsOK'
  BY <1>1 DEF RowsOK, OnItsWay, Source
<1>4. EventsOK'
  BY <1>1 DEF EventsOK
<1>5. QueuesOK'
  BY DEF QueuesOK
<1>6. UnusedOK'
  BY DEF UnusedOK
<1>. QED  BY <1>2, <1>3, <1>4, <1>5, <1>6

LEMMA DeclareStep ==
  ASSUME KeptInv, DeclareTopology \/ \E sh \in Shards : DeclareQueue(sh)
  PROVE  KeptInv'
<1>1. /\ UNCHANGED <<placed, orderRow, eventRow, orders, fulfilled, queued>>
      /\ undeclared' \subseteq undeclared
      /\ Shards \ undeclared' \subseteq declared'
      /\ declared \subseteq declared' /\ declared' \subseteq Shards
  BY DEF DeclareTopology, DeclareQueue, DeclareShardQueue, KeptInv, IngestionTypes, Shards,
         intakeVars, webhookVars, consumerVars
<1>. QED  BY <1>1, MovesKeep DEF KeptInv, IngestionTypes, QueuesOK

LEMMA PlaceOrderStep ==
  ASSUME KeptInv, NEW q \in Requests, HandleOrder(q)
  PROVE  KeptInv'
<1>. USE DEF KeptInv
<1>. DEFINE id == Len(placed) + 1
            new == Normalised(q)
            taken == \E i \in 1..Len(placed) : /\ orderRow[i] \in {"NEW", "PUBLISHED"}
                                               /\ KeyOf(placed[i]) = KeyOf(new)
<1>1. /\ id \in Ids /\ placed' = Append(placed, new)
      /\ orderRow' = IF taken THEN orderRow ELSE [orderRow EXCEPT ![id] = "NEW"]
      /\ UNCHANGED <<declared, undeclared, eventRow, orders, fulfilled, queued>>
  <2>1. UNCHANGED <<declared, undeclared, eventRow, orders, fulfilled, queued>>
    BY DEF HandleOrder, PlaceOrder, webhookVars, consumerVars
  <2>2. id \in Ids /\ placed' = Append(placed, new)
    BY DEF HandleOrder, PlaceOrder
  <2>3. orderRow' = IF taken THEN orderRow ELSE [orderRow EXCEPT ![id] = "NEW"]
    BY DEF HandleOrder, PlaceOrder
  <2>. QED  BY <2>1, <2>2, <2>3
<1>2. new \in Valid /\ new.source = q.source /\ new.clientKey = q.clientKey
  BY RequestsAssumption, NamesAssumption
  DEF HandleOrder, Validate, IsValidEventType, Normalised, Valid
<1>. HIDE DEF new
<1>3. /\ placed' \in Seq(Valid) /\ Len(placed') = id /\ Len(placed) \in Nat
      /\ \A i \in 1..Len(placed) : placed'[i] = placed[i]
      /\ placed'[id] = new
  BY <1>1, <1>2 DEF IngestionTypes
<1>4. \A i \in 1..Len(placed) : Source(i)' = Source(i)
  BY <1>3 DEF Source
<1>5. placed'[id].source = q.source
  BY <1>2, <1>3
<1>6. IngestionTypes'
  BY <1>1, <1>3, BoundsAssumption DEF IngestionTypes, Ids
<1>7. \A msg : InSomeQueue(msg)' <=> InSomeQueue(msg)
  BY <1>1 DEF InSomeQueue
<1>8. RowsOK'
  <2>. SUFFICES ASSUME KeysApart
                PROVE  RowsOK'
    BY DEF RowsOK
  <2>1. ASSUME NEW i \in 1..Len(placed)
        PROVE  /\ orderRow'[i] \in {"PUBLISHED", "PRUNED"} => OnItsWay(i)'
               /\ orderRow'[i] = "none" =>
                    \E j \in 1..id : Source(j)' = Source(i)' /\ orderRow'[j] # "none"
    <3>1. orderRow'[i] = orderRow[i]
      BY <1>1, <1>3 DEF IngestionTypes
    <3>2. OnItsWay(i) => OnItsWay(i)'
      BY <1>1, <1>4, <1>7 DEF OnItsWay, IngestionTypes
    <3>3. ASSUME NEW j \in 1..Len(placed), orderRow[j] # "none"
          PROVE  j \in 1..id /\ orderRow'[j] # "none"
      BY <1>1, <1>3, <3>3, BoundsAssumption DEF IngestionTypes, Ids
    <3>. QED  BY <1>4, <3>1, <3>2, <3>3 DEF RowsOK
  <2>3. CASE ~taken
    <3>1. orderRow'[id] = "NEW"
      BY <1>1, <2>3 DEF IngestionTypes
    <3>. QED  BY <1>3, <2>1, <3>1 DEF RowsOK
  <2>4. CASE taken
    <3>1. PICK j \in 1..Len(placed) : /\ orderRow[j] \in {"NEW", "PUBLISHED"}
                                      /\ KeyOf(placed[j]) = KeyOf(new)
      BY <2>4
    <3>2. Source(j)' = placed'[id].source /\ orderRow'[j] # "none" /\ j \in 1..Len(placed')
      <4>1. \E p \in Requests : Source(j) = p.source
        <5>1. placed[j] \in Valid
          BY DEF IngestionTypes
        <5>. QED  BY <5>1 DEF Valid, Source
      <4>2. placed[j].clientKey \in {p.clientKey : p \in Requests}
        <5>1. placed[j] \in Valid
          BY DEF IngestionTypes
        <5>. QED  BY <5>1 DEF Valid
      <4>3. Source(j) = q.source
        <5>1. ComputeKey(Source(j), placed[j].clientKey) = ComputeKey(q.source, q.clientKey)
          BY <1>2, <3>1 DEF KeyOf, Source
        <5>. QED  BY <4>1, <4>2, <5>1 DEF KeysApart
      <4>. QED  BY <1>1, <1>3, <1>4, <1>5, <2>4, <3>1, <4>3
    <3>3. orderRow'[id] \notin {"PUBLISHED", "PRUNED"}
      BY <1>1, <1>3, <2>4 DEF IngestionTypes, RowsOK, UnusedOK
    <3>. QED  BY <1>3, <2>1, <3>2, <3>3 DEF RowsOK, Source
  <2>. QED  BY <2>3, <2>4
<1>9. EventsOK'
  BY <1>1, <1>7 DEF EventsOK
<1>10. QueuesOK'
  BY <1>1, <1>3 DEF QueuesOK
<1>11. UnusedOK'
  BY <1>1, <1>3 DEF UnusedOK, IngestionTypes, Ids
<1>. QED  BY <1>6, <1>8, <1>9, <1>10, <1>11

LEMMA ReceiveStep ==
  ASSUME KeptInv, NEW e \in Events, HandleWebhook(e)
  PROVE  KeptInv'
<1>. USE DEF KeptInv
<1>1. /\ UNCHANGED <<declared, undeclared, placed, orderRow, orders, fulfilled, queued>>
      /\ e[1] \in orders /\ eventRow' = [eventRow EXCEPT ![e] = "NEW"]
  BY DEF HandleWebhook, ReceivePaymentEvent, intakeVars, consumerVars
<1>2. \A msg : InSomeQueue(msg)' <=> InSomeQueue(msg)
  BY <1>1 DEF InSomeQueue
<1>3. IngestionTypes' /\ UnusedOK' /\ QueuesOK'
  BY <1>1 DEF IngestionTypes, UnusedOK, QueuesOK
<1>4. RowsOK'
  BY <1>1, <1>2 DEF RowsOK, OnItsWay, Source
<1>5. EventsOK'
  BY <1>1, <1>2 DEF EventsOK, IngestionTypes
<1>. QED  BY <1>3, <1>4, <1>5

\* While rows are relayed, every registered pair has a queue in both streams.
LEMMA Reached ==
  ASSUME KeptInv, Relaying, NEW s \in Streams, NEW n \in Registry
  PROVE  Routes(Exchange, RoutingKeyFor(s, n)) # {}
<1>1. <<s, n>> \in declared /\ declared \subseteq Shards
  BY DEF KeptInv, IngestionTypes, Relaying, Shards
<1>. QED  BY <1>1, RouteOfShard

LEMMA PublishKeeps ==
  ASSUME KeptInv, NEW msg \in Messages, Publish(msg), UNCHANGED <<declared, placed>>,
         msg.aggregate = "order" => msg.row \in 1..Len(placed)
  PROVE  /\ QueuesOK'
         /\ \A m \in queued' : m = <<m[1], m[2]>> /\ m[2] \in Messages
         /\ \A x : InSomeQueue(x) => InSomeQueue(x)'
         /\ Routes(Exchange, KeyOfMessage(msg)) # {} => InSomeQueue(msg)'
<1>. DEFINE to == Routes(Exchange, KeyOfMessage(msg))
<1>1. queued' = queued \cup {<<q, msg>> : q \in to}
  BY DEF Publish
<1>2. \A q \in to : \E sh \in declared : q = QueueFor(sh[1], sh[2])
  BY RoutesDeclared DEF KeptInv, IngestionTypes
<1>. HIDE DEF to
<1>3. QueuesOK'
  BY <1>1, <1>2 DEF KeptInv, QueuesOK
<1>4. \A m \in queued' : m = <<m[1], m[2]>> /\ m[2] \in Messages
  BY <1>1 DEF KeptInv, IngestionTypes
<1>5. \A x : InSomeQueue(x) => InSomeQueue(x)'
  BY <1>1 DEF InSomeQueue
<1>6. to # {} => InSomeQueue(msg)'
  <2>1. SUFFICES ASSUME NEW q \in to
                 PROVE  InSomeQueue(msg)'
    OBVIOUS
  <2>2. <<q, msg>> \in queued' /\ <<q, msg>>[2] = msg
    BY <1>1, <2>1
  <2>. QED  BY <2>2 DEF InSomeQueue
<1>. QED  BY <1>3, <1>4, <1>5, <1>6 DEF to

LEMMA PublishOrderStep ==
  ASSUME KeptInv, NEW i \in Ids, NEW marked \in BOOLEAN, PublishOrder(i, marked)
  PROVE  KeptInv'
<1>. USE DEF KeptInv
<1>1. /\ UNCHANGED <<declared, undeclared, placed, eventRow, orders, fulfilled>>
      /\ orderRow[i] = "NEW"
      /\ orderRow' = [orderRow EXCEPT ![i] = "PUBLISHED"] \/ orderRow' = orderRow
      /\ Publish(OrderMessage(i)) /\ Relaying
  BY DEF PublishOrder, webhookVars, consumerVars
<1>2. i \in 1..Len(placed)
  BY <1>1, BoundsAssumption DEF UnusedOK, IngestionTypes, Ids
<1>3. OrderMessage(i) \in Messages /\ OrderMessage(i).row = i
      /\ OrderMessage(i).aggregate = "order"
  BY DEF Messages, OrderMessage
<1>4. Routes(Exchange, KeyOfMessage(OrderMessage(i))) # {}
  <2>1. placed[i].name \in Registry
    <3>1. placed[i] \in Valid
      BY <1>2 DEF IngestionTypes
    <3>. QED  BY <3>1 DEF Valid
  <2>2. KeyOfMessage(OrderMessage(i)) = RoutingKeyFor(OrderStream, placed[i].name)
    BY <1>3 DEF KeyOfMessage, StreamForAggregateType
  <2>. QED  BY <1>1, <2>1, <2>2, Reached DEF Streams
<1>5. /\ QueuesOK'
      /\ \A m \in queued' : m = <<m[1], m[2]>> /\ m[2] \in Messages
      /\ \A x : InSomeQueue(x) => InSomeQueue(x)'
      /\ InSomeQueue(OrderMessage(i))'
  BY <1>1, <1>2, <1>3, <1>4, PublishKeeps
<1>6. IngestionTypes' /\ UnusedOK'
  BY <1>1, <1>2, <1>5 DEF IngestionTypes, UnusedOK
<1>7. RowsOK'
  <2>1. OnItsWay(i)' /\ \A j : OnItsWay(j) => OnItsWay(j)'
    BY <1>1, <1>5 DEF OnItsWay, Source
  <2>2. \A j : Source(j)' = Source(j)
    BY <1>1 DEF Source
  <2>3. \A j \in Ids : /\ j # i => orderRow'[j] = orderRow[j]
                       /\ orderRow'[j] = "none" <=> orderRow[j] = "none"
    BY <1>1 DEF IngestionTypes
  <2>4. 1..Len(placed) \subseteq Ids
    BY BoundsAssumption DEF IngestionTypes, Ids
  <2>. QED  BY <1>1, <2>1, <2>2, <2>3, <2>4 DEF RowsOK
<1>8. EventsOK'
  BY <1>1, <1>5 DEF EventsOK
<1>. QED  BY <1>5, <1>6, <1>7, <1>8

LEMMA PublishEventStep ==
  ASSUME KeptInv, NEW e \in Events, NEW marked \in BOOLEAN, PublishEvent(e, marked)
  PROVE  KeptInv'
<1>. USE DEF KeptInv
<1>1. /\ UNCHANGED <<declared, undeclared, placed, orderRow, orders, fulfilled>>
      /\ eventRow[e] = "NEW"
      /\ eventRow' = [eventRow EXCEPT ![e] = "PUBLISHED"] \/ eventRow' = eventRow
      /\ Publish(EventMessage(e)) /\ Relaying
  BY DEF PublishEvent, intakeVars, consumerVars
<1>2. e[1] \in 1..Len(placed)
  BY <1>1 DEF EventsOK, IngestionTypes
<1>3. EventMessage(e) \in Messages /\ EventMessage(e).row = e
      /\ EventMessage(e).aggregate = "payment_event"
  BY DEF Messages, EventMessage
<1>4. e[2] = "session" => Routes(Exchange, KeyOfMessage(EventMessage(e))) # {}
  <2>1. placed[e[1]].name \in Registry
    <3>1. placed[e[1]] \in Valid
      BY <1>2 DEF IngestionTypes
    <3>. QED  BY <3>1 DEF Valid
  <2>2. e[2] = "session" =>
          KeyOfMessage(EventMessage(e)) = RoutingKeyFor(PaymentEventStream, placed[e[1]].name)
    BY <1>3 DEF KeyOfMessage, StreamForAggregateType, EventTypeOf
  <2>. QED  BY <1>1, <2>1, <2>2, Reached DEF Streams
<1>5. /\ QueuesOK'
      /\ \A m \in queued' : m = <<m[1], m[2]>> /\ m[2] \in Messages
      /\ \A x : InSomeQueue(x) => InSomeQueue(x)'
      /\ e[2] = "session" => InSomeQueue(EventMessage(e))'
  BY <1>1, <1>3, <1>4, PublishKeeps
<1>6. IngestionTypes' /\ UnusedOK'
  BY <1>1, <1>5 DEF IngestionTypes, UnusedOK
<1>7. RowsOK'
  BY <1>1, <1>5 DEF RowsOK, OnItsWay, Source
<1>8. EventsOK'
  BY <1>1, <1>5 DEF EventsOK, IngestionTypes
<1>. QED  BY <1>5, <1>6, <1>7, <1>8

LEMMA PruneStep ==
  ASSUME KeptInv, NEW i \in Ids, PruneOrder(i)
  PROVE  KeptInv'
<1>. USE DEF KeptInv
<1>1. /\ UNCHANGED <<declared, undeclared, placed, eventRow, orders, fulfilled, queued>>
      /\ orderRow[i] = "PUBLISHED"
      /\ orderRow' = [orderRow EXCEPT ![i] = "PRUNED"]
  BY DEF PruneOrder, webhookVars, consumerVars
<1>2. \A msg : InSomeQueue(msg)' <=> InSomeQueue(msg)
  BY <1>1 DEF InSomeQueue
<1>3. IngestionTypes' /\ UnusedOK' /\ QueuesOK'
  BY <1>1 DEF IngestionTypes, UnusedOK, QueuesOK
<1>4. RowsOK'
  BY <1>1, <1>2, BoundsAssumption DEF RowsOK, OnItsWay, Source, IngestionTypes, Ids
<1>5. EventsOK'
  BY <1>1, <1>2 DEF EventsOK
<1>. QED  BY <1>3, <1>4, <1>5

\* What a settled delivery leaves in the queues.
LEMMA SettleKeeps ==
  ASSUME KeptInv, NEW m \in queued, Settle(m), UNCHANGED <<declared, placed>>
  PROVE  /\ queued' \subseteq queued /\ QueuesOK'
         /\ \A x : x # m[2] /\ InSomeQueue(x) => InSomeQueue(x)'
BY DEF Settle, KeptInv, QueuesOK, InSomeQueue

LEMMA ProcessOrderStep ==
  ASSUME KeptInv, NEW m \in queued, ProcessOrder(m)
  PROVE  KeptInv'
<1>. USE DEF KeptInv
<1>1. /\ UNCHANGED <<declared, undeclared, placed, orderRow, eventRow, fulfilled>>
      /\ m[2].aggregate = "order" /\ Settle(m)
      /\ orders' = IF \E i \in orders : Source(i) = Source(m[2].row)
                   THEN orders ELSE orders \cup {m[2].row}
  BY DEF ProcessOrder, intakeVars, webhookVars
<1>2. queued' \subseteq queued /\ QueuesOK'
      /\ \A x : x # m[2] /\ InSomeQueue(x) => InSomeQueue(x)'
  BY <1>1, SettleKeeps
<1>3. m[2].row \in 1..Len(placed) /\ m[2] \in Messages
  BY <1>1 DEF QueuesOK, IngestionTypes
<1>4. orders \subseteq orders' /\ orders' \subseteq 1..Len(placed)
      /\ \E o \in orders' : Source(o) = Source(m[2].row)
  BY <1>1, <1>3 DEF IngestionTypes
<1>5. \A i : OrderMessage(i) = m[2] => i = m[2].row
  BY DEF OrderMessage
<1>6. \A e : EventMessage(e) # m[2]
  BY <1>1 DEF EventMessage
<1>7. IngestionTypes' /\ UnusedOK'
  BY <1>1, <1>2, <1>4 DEF IngestionTypes, UnusedOK
<1>8. \A i : Source(i)' = Source(i)
  BY <1>1 DEF Source
<1>9. RowsOK'
  <2>1. ASSUME NEW i \in 1..Len(placed), OnItsWay(i)
        PROVE  OnItsWay(i)'
    BY <1>2, <1>4, <1>5, <1>8, <2>1 DEF OnItsWay
  <2>. QED  BY <1>1, <1>8, <2>1 DEF RowsOK
<1>10. EventsOK'
  BY <1>1, <1>2, <1>4, <1>6 DEF EventsOK
<1>. QED  BY <1>2, <1>7, <1>9, <1>10

LEMMA IssueTicketsStep ==
  ASSUME KeptInv, NEW m \in queued, IssueTickets(m)
  PROVE  KeptInv'
<1>. USE DEF KeptInv
<1>1. /\ UNCHANGED <<declared, undeclared, placed, orderRow, eventRow, orders>>
      /\ m[2].aggregate = "payment_event" /\ Settle(m)
      /\ fulfilled' = fulfilled \cup {m[2].row}
  BY DEF IssueTickets, intakeVars, webhookVars
<1>2. queued' \subseteq queued /\ QueuesOK'
      /\ \A x : x # m[2] /\ InSomeQueue(x) => InSomeQueue(x)'
  BY <1>1, SettleKeeps
<1>3. \A i : OrderMessage(i) # m[2]
  BY <1>1 DEF OrderMessage
<1>4. \A e : EventMessage(e) = m[2] => e \in fulfilled'
  BY <1>1 DEF EventMessage
<1>5. IngestionTypes' /\ UnusedOK'
  BY <1>1, <1>2 DEF IngestionTypes, UnusedOK
<1>6. RowsOK'
  BY <1>1, <1>2, <1>3 DEF RowsOK, OnItsWay, Source
<1>7. EventsOK'
  BY <1>1, <1>2, <1>4 DEF EventsOK
<1>. QED  BY <1>2, <1>5, <1>6, <1>7

\* A retry queue has no consumer, and the consumer of a main queue knows its shard.
LEMMA FailStep ==
  ASSUME KeptInv, NEW m \in queued, Fail(m)
  PROVE  KeptInv'
<1>. USE DEF KeptInv
<1>1. UNCHANGED <<declared, undeclared, placed, orderRow, eventRow, orders, fulfilled>>
  BY DEF Fail, intakeVars, webhookVars, consumerVars
<1>2. PICK sh \in ParseQueueName(m[1]) :
        queued' = (queued \ {m}) \cup {<<RetryQueueFor(sh[1], sh[2]), m[2]>>}
  BY DEF Fail
<1>3. PICK d \in declared : m[1] = QueueFor(d[1], d[2]) \/ m[1] = RetryQueueFor(d[1], d[2])
  BY DEF QueuesOK
<1>4. d = <<d[1], d[2]>> /\ d[1] \in Streams /\ d[2] \in Registry
  BY <1>3 DEF IngestionTypes, Shards
<1>5. sh \in declared
  <2>1. m[1] = QueueFor(sh[1], sh[2])
    BY <1>2 DEF ParseQueueName, QueueOf
  <2>2. m[1] # RetryQueueFor(d[1], d[2])
    BY <2>1 DEF QueueFor, RetryQueueFor
  <2>. QED  BY <1>2, <1>3, <1>4, <2>2, ParseQueueNameInverts
<1>6. ASSUME NEW x \in queued'
      PROVE  /\ x = <<x[1], x[2]>>
             /\ \E p \in queued : p[2] = x[2]
             /\ \E t \in declared : x[1] = QueueFor(t[1], t[2]) \/ x[1] = RetryQueueFor(t[1], t[2])
  BY <1>2, <1>5 DEF IngestionTypes, QueuesOK
<1>7. ASSUME NEW p \in queued
      PROVE  \E x \in queued' : x[2] = p[2]
  <2>. DEFINE moved == <<RetryQueueFor(sh[1], sh[2]), m[2]>>
  <2>1. moved \in queued' /\ moved[2] = m[2]
    BY <1>2
  <2>2. p # m => p \in queued'
    BY <1>2
  <2>. QED  BY <2>1, <2>2
<1>. QED  BY <1>1, <1>6, <1>7, MovesKeep DEF IngestionTypes

LEMMA ExpireStep ==
  ASSUME KeptInv, NEW m \in queued, Expire(m)
  PROVE  KeptInv'
<1>. USE DEF KeptInv
<1>1. /\ UNCHANGED <<declared, undeclared, placed, orderRow, eventRow, orders, fulfilled>>
      /\ m[1][3] = "retry"
  BY DEF Expire, intakeVars, webhookVars, consumerVars
<1>. DEFINE back == DeadLetterRoutes(m[1])
<1>2. queued' = (queued \ {m}) \cup {<<q, m[2]>> : q \in back}
  BY DEF Expire
<1>3. PICK d \in declared : m[1] = QueueFor(d[1], d[2]) \/ m[1] = RetryQueueFor(d[1], d[2])
  BY DEF QueuesOK
<1>4. m[1] = RetryQueueFor(d[1], d[2])
  BY <1>1, <1>3 DEF QueueFor
<1>5. back # {} /\ \A q \in back : \E t \in declared : q = QueueFor(t[1], t[2])
  BY <1>4, RetryReturns DEF IngestionTypes
<1>. HIDE DEF back
<1>6. ASSUME NEW x \in queued'
      PROVE  /\ x = <<x[1], x[2]>>
             /\ \E p \in queued : p[2] = x[2]
             /\ \E t \in declared : x[1] = QueueFor(t[1], t[2]) \/ x[1] = RetryQueueFor(t[1], t[2])
  BY <1>2, <1>5 DEF IngestionTypes, QueuesOK
<1>7. ASSUME NEW p \in queued
      PROVE  \E x \in queued' : x[2] = p[2]
  <2>1. PICK q \in back : TRUE
    BY <1>5
  <2>2. <<q, m[2]>> \in queued' /\ <<q, m[2]>>[2] = m[2]
    BY <1>2
  <2>3. p # m => p \in queued'
    BY <1>2
  <2>. QED  BY <2>2, <2>3
<1>. QED  BY <1>1, <1>6, <1>7, MovesKeep DEF IngestionTypes

LEMMA KeptInvStep == KeptInv /\ [IngestionNext]_ingestionVars => KeptInv'
<1>. SUFFICES ASSUME KeptInv, [IngestionNext]_ingestionVars
              PROVE  KeptInv'
  OBVIOUS
<1>1. CASE UNCHANGED ingestionVars
  <2>1. UNCHANGED <<declared, undeclared, placed, orderRow, eventRow, orders, fulfilled, queued>>
    BY <1>1 DEF ingestionVars, intakeVars, webhookVars, consumerVars
  <2>. QED  BY <2>1, MovesKeep DEF KeptInv, IngestionTypes, QueuesOK
<1>2. CASE DeclareTopology \/ \E sh \in Shards : DeclareQueue(sh)
  BY <1>2, DeclareStep
<1>3. CASE \E q \in Requests : HandleOrder(q)
  BY <1>3, PlaceOrderStep
<1>4. CASE \E e \in Events : HandleWebhook(e)
  BY <1>4, ReceiveStep
<1>5. CASE \E marked \in BOOLEAN : \E i \in Ids : PublishOrder(i, marked)
  BY <1>5, PublishOrderStep
<1>6. CASE \E marked \in BOOLEAN : \E e \in Events : PublishEvent(e, marked)
  BY <1>6, PublishEventStep
<1>7. CASE \E i \in Ids : PruneOrder(i)
  BY <1>7, PruneStep
<1>8. CASE \E m \in queued : Consumer(m) \/ Fail(m) \/ Expire(m)
  BY <1>8, ProcessOrderStep, IssueTicketsStep, FailStep, ExpireStep DEF Consumer
<1>. QED  BY <1>1, <1>2, <1>3, <1>4, <1>5, <1>6, <1>7, <1>8 DEF IngestionNext

-----------------------------------------------------------------------------

LEMMA KeptInvHolds == IngestionSpec => []KeptInv
BY KeptInvInit, KeptInvStep, PTL DEF IngestionSpec

\* As long as no two orders share a key, an order answered with 201 is never
\* dropped between its row and orders.
THEOREM AcceptedKept == KeysApart /\ IngestionSpec => []AcceptedIsKept
<1>1. SUFFICES ASSUME KeysApart
               PROVE  IngestionSpec => []AcceptedIsKept
  OBVIOUS
<1>2. KeptInv => AcceptedIsKept
  BY <1>1, KeptInvImplies
<1>. QED  BY <1>2, KeptInvHolds, PTL

\* A session event answered with 200 is never dropped on its way to fulfillment.
THEOREM PaymentsNeverDropped == IngestionSpec => []PaymentsKept
BY KeptInvHolds, KeptInvImplies, PTL

\* What the invariant above leaves out of the types.
CountsOK == fulfilled \subseteq Events /\ failures \in 0..MaxFailures

LEMMA CountsStep == KeptInv /\ CountsOK /\ [IngestionNext]_ingestionVars => CountsOK'
<1>. SUFFICES ASSUME KeptInv, CountsOK, [IngestionNext]_ingestionVars
              PROVE  CountsOK'
  OBVIOUS
<1>. USE DEF CountsOK
<1>1. CASE UNCHANGED <<fulfilled, failures>>
  BY <1>1
<1>2. CASE \E m \in queued : IssueTickets(m)
  <2>1. PICK m \in queued : IssueTickets(m)
    BY <1>2
  <2>2. m[2] \in Messages /\ m[2].aggregate = "payment_event"
    BY <2>1 DEF KeptInv, IngestionTypes, IssueTickets
  <2>3. m[2].row \in Events
    BY <2>2 DEF Messages, OrderMessage, EventMessage
  <2>. QED  BY <2>1, <2>3 DEF IssueTickets
<1>3. CASE \E m \in queued : Fail(m)
  BY <1>3, BoundsAssumption DEF Fail, consumerVars
<1>. QED
  BY <1>1, <1>2, <1>3
  DEF IngestionNext, DeclareTopology, DeclareQueue, HandleOrder, PlaceOrder,
      HandleWebhook, ReceivePaymentEvent,
      PublishOrder, PublishEvent, PruneOrder, Consumer, ProcessOrder, Expire,
      consumerVars, ingestionVars

LEMMA TypesComplete == KeptInv /\ CountsOK => IngestionTypeOK
<1>. SUFFICES ASSUME KeptInv, CountsOK
              PROVE  IngestionTypeOK
  OBVIOUS
<1>1. ASSUME NEW m \in queued
      PROVE  m \in QueueNames \X Messages
  <2>1. m = <<m[1], m[2]>> /\ m[2] \in Messages
    BY DEF KeptInv, IngestionTypes
  <2>2. m[1] \in QueueNames
    BY DEF KeptInv, IngestionTypes, QueuesOK, QueueNames
  <2>. QED  BY <2>1, <2>2
<1>2. queued \subseteq QueueNames \X Messages
  BY <1>1
<1>. QED  BY <1>2 DEF IngestionTypeOK, KeptInv, IngestionTypes, CountsOK, Valid

\* Everything in the queues, the tables and the requests has its type.
THEOREM IngestionTyped == IngestionSpec => []IngestionTypeOK
<1>1. IngestionInit => CountsOK
  BY BoundsAssumption DEF IngestionInit, CountsOK
<1>. QED  BY <1>1, KeptInvHolds, CountsStep, TypesComplete, PTL DEF IngestionSpec
=============================================================================
