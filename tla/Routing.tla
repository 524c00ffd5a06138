------------------------------- MODULE Routing -------------------------------
(***************************************************************************)
(* Names, keys and queues of the two message flows                         *)
(* (internal/infrastructure/rabbitmq/rabbitmq.go).  What one of the        *)
(* processes calls a (event_type, event_subtype) pair, another must find   *)
(* again: the HTTP handler by upper case, routing keys and queues by lower *)
(* case, a consumer by parsing the name of the one queue it is given.      *)
(*                                                                         *)
(* A Name is such a pair as somebody spelled it.  Names and keys are joined *)
(* with dots in the code and are tuples here: no registered word has a dot. *)
(***************************************************************************)
CONSTANTS
  Names,     \* the spellings that occur
  Registry,  \* EventTypes: the registered pairs
  ToUpper,   \* strings.ToUpper of both parts
  ToLower    \* strings.ToLower of both parts

ASSUME NamesAssumption ==
  /\ Registry \subseteq Names
  /\ ToUpper \in [Names -> Names]
  /\ ToLower \in [Names -> Names]

\* EventTypes is written in capitals; letters have one lower and one upper case.
ASSUME CaseAssumption ==
  /\ \A n \in Registry : ToUpper[n] = n
  /\ \A n \in Names : ToLower[ToUpper[n]] = ToLower[n]
  /\ \A m, n \in Names : ToLower[m] = ToLower[n] => ToUpper[m] = ToUpper[n]

VARIABLE declared  \* the shards whose queues and bindings the broker has

Exchange == "tickets.exchange"
DLX      == "tickets.dlx"

OrderStream        == [queuePrefix |-> "events", routingPrefix |-> "order"]
PaymentEventStream == [queuePrefix |-> "payments", routingPrefix |-> "payment"]

Streams == {OrderStream, PaymentEventStream}
Shards  == Streams \X Registry

IsValidEventType(n) == n \in Registry

StreamForAggregateType(a) == IF a = "order" THEN OrderStream ELSE PaymentEventStream

QueueFor(s, n)      == <<s.queuePrefix, ToLower[n], "queue">>
DLQFor(s, n)        == <<s.queuePrefix, ToLower[n], "dlq">>
RetryQueueFor(s, n) == <<s.queuePrefix, ToLower[n], "retry">>

RoutingKeyFor(s, n)    == <<s.routingPrefix, ToLower[n]>>
DLXRoutingKeyFor(s, n) == <<s.routingPrefix, ToLower[n], "dead">>

\* The shards that have this queue: the code takes the first it meets.
QueueOf == [sh \in Shards |-> QueueFor(sh[1], sh[2])]
ParseQueueName(q) == {sh \in Shards : QueueOf[sh] = q}

Queue(name, exchange, key)   == [name |-> name, deadExchange |-> exchange, deadKey |-> key]
Binding(exchange, key, name) == [exchange |-> exchange, key |-> key, queue |-> name]

\* Mutant: a retry queue whose messages expire to the dead-letter exchange.
ShardQueuesAstray(s, n) ==
  {Queue(DLQFor(s, n), "", <<>>),
   Queue(QueueFor(s, n), DLX, DLXRoutingKeyFor(s, n)),
   Queue(RetryQueueFor(s, n), DLX, RoutingKeyFor(s, n))}

ShardQueues(s, n) ==
  {Queue(DLQFor(s, n), "", <<>>),
   Queue(QueueFor(s, n), DLX, DLXRoutingKeyFor(s, n)),
   Queue(RetryQueueFor(s, n), Exchange, RoutingKeyFor(s, n))}

ShardBindings(s, n) ==
  {Binding(DLX, DLXRoutingKeyFor(s, n), DLQFor(s, n)),
   Binding(Exchange, RoutingKeyFor(s, n), QueueFor(s, n))}

\* declareShardQueue: five calls, each of which changes nothing the second time.
\* They are one step here, because a process uses a shard after its last call.
DeclareShardQueue(s, n) == declared' = declared \cup {<<s, n>>}

QueuesOf   == [sh \in Shards |-> ShardQueues(sh[1], sh[2])]
BindingsOf == [sh \in Shards |-> ShardBindings(sh[1], sh[2])]
Queues   == UNION {QueuesOf[sh] : sh \in declared}
Bindings == UNION {BindingsOf[sh] : sh \in declared}

\* Where the broker puts a message published with this key (the main exchange is a
\* topic exchange, but no binding key has a wildcard).  No binding: it is dropped,
\* and the publish, which is not mandatory, confirmed all the same.
Routes(exchange, key) ==
  {b.queue : b \in {c \in Bindings : c.exchange = exchange /\ c.key = key}}

\* Where the messages go that expire in, or are rejected from, a queue.
DeadLetterRoutes(name) ==
  UNION {Routes(q.deadExchange, q.deadKey) : q \in {p \in Queues : p.name = name}}
=============================================================================
