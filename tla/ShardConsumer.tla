---------------------------- MODULE ShardConsumer ----------------------------
(***************************************************************************)
(* One shard of a stream: its queue, its *.retry holding queue and its     *)
(* DLQ (internal/infrastructure/rabbitmq/rabbitmq.go), the consumer        *)
(* replicas that drain the queue (internal/adapter/messaging/consumer.go)  *)
(* and the operator's drain-dlq and purge-loadtest-dlq                     *)
(* (cmd/outbox-admin/main.go).                                             *)
(*                                                                         *)
(* RabbitMQ has no operation that moves a message or changes its headers:  *)
(* the code publishes a copy, waits for the confirm and then acks the      *)
(* original.  The queues are FIFOs of such copies; a delivery that is      *)
(* returned gets back to the front, and a copy leaves the retry queue only *)
(* from its head, where the broker applies its TTL.                        *)
(***************************************************************************)
EXTENDS Naturals, Sequences

CONSTANTS
  Messages,       \* message ids
  BadSchema,      \* those whose processing always ends in ErrUnknownSchemaVersion
  Loadtest,       \* those isLoadtestMessage recognises
  Consumers,      \* the replicas
  Prefetch,       \* PREFETCH_COUNT
  MaxDeliveries,  \* MAX_DELIVERIES
  MaxToolRuns,    \* bound on the runs of the two tools
  MaxDisruptions  \* bound on lost connections, failed publishes and repeated sends

ASSUME SubsetsAssumption       == BadSchema \subseteq Messages /\ Loadtest \subseteq Messages
ASSUME PrefetchAssumption      == Prefetch \in Nat \ {0}
ASSUME MaxDeliveriesAssumption == MaxDeliveries \in Nat \ {0}
ASSUME BoundsAssumption        == MaxToolRuns \in Nat /\ MaxDisruptions \in Nat

VARIABLES
  \* the broker
  main,            \* the queue
  retry,           \* its retry queue
  dlq,             \* its dead-letter queue
  \* the replicas
  unacked,         \* the copies delivered to each replica, in order
  stage,           \* what handle() will do with the first of them
  \* the operator's tool
  tool,            \* which one is running
  got,             \* the copy it has taken from the DLQ, a sequence of at most one
  copied,          \* its republish has been confirmed
  quota,           \* the Gets that purge-loadtest-dlq has left
  \* the world
  sent,            \* the messages the relay has published
  processed,       \* those some Execute returned nil for
  toolRuns, disruptions,
  purged,          \* history: the messages of which the purge removed a copy
  unseen           \* history: the messages the purge found in the DLQ, not taken yet

queueVars == <<main, retry, dlq>>
consVars  == <<unacked, stage>>
toolVars  == <<tool, got, copied, quota, toolRuns, purged, unseen>>
vars      == <<main, retry, dlq, unacked, stage, tool, got, copied, quota, toolRuns,
               purged, unseen, sent, processed, disruptions>>

\* A message as it is in a queue: its id and its x-retry-count header.
Copy == [msg : Messages, count : 0 .. MaxDeliveries - 1]

Elems(s) == {s[i] : i \in DOMAIN s}

\* The messages of which one of the sequences q has a copy.
Ids(q) == {x.msg : x \in Elems(q)}

InUse == Ids(main) \cup Ids(retry) \cup Ids(dlq) \cup Ids(got)
           \cup UNION {Ids(unacked[c]) : c \in Consumers}

TypeOK ==
  /\ main \in Seq(Copy) /\ retry \in Seq(Copy) /\ dlq \in Seq(Copy)
  /\ unacked \in [Consumers -> Seq(Copy)]
  /\ \A c \in Consumers : Len(unacked[c]) <= Prefetch
  /\ stage \in [Consumers -> {"waiting", "ack", "reject", "retry", "nack"}]
  /\ tool \in {"none", "drain", "purge"}
  /\ got \in Seq(Copy) /\ Len(got) <= 1 /\ copied \in BOOLEAN
  /\ quota \in Nat /\ toolRuns \in 0..MaxToolRuns
  /\ purged \subseteq sent \cap Loadtest /\ unseen \subseteq sent
  /\ sent \subseteq Messages /\ processed \subseteq sent
  /\ disruptions \in 0..MaxDisruptions

Init ==
  /\ main = <<>> /\ retry = <<>> /\ dlq = <<>>
  /\ unacked = [c \in Consumers |-> <<>>]
  /\ stage = [c \in Consumers |-> "waiting"]
  /\ tool = "none" /\ got = <<>> /\ copied = FALSE /\ quota = 0
  /\ toolRuns = 0 /\ purged = {} /\ unseen = {}
  /\ sent = {} /\ processed = {} /\ disruptions = 0

Disrupt == disruptions < MaxDisruptions /\ disruptions' = disruptions + 1

-----------------------------------------------------------------------------
(* The broker. *)

\* The relay publishes a message, once or, at-least-once, again.
Publish(m) ==
  /\ IF m \in sent THEN Disrupt ELSE UNCHANGED disruptions
  /\ main' = Append(main, [msg |-> m, count |-> 0])
  /\ sent' = sent \cup {m}
  /\ UNCHANGED <<retry, dlq, consVars, toolVars, processed>>

Deliver(c) ==
  /\ main # <<>>
  /\ Len(unacked[c]) < Prefetch
  /\ main' = Tail(main)
  /\ unacked' = [unacked EXCEPT ![c] = Append(@, Head(main))]
  /\ UNCHANGED <<retry, dlq, stage, toolVars, sent, processed, disruptions>>

\* The TTL of the copy at the head of the retry queue is over: the queue's
\* dead-letter arguments route it back to the main queue, headers included.
RetryExpires ==
  /\ retry # <<>>
  /\ retry' = Tail(retry)
  /\ main' = Append(main, Head(retry))
  /\ UNCHANGED <<dlq, consVars, toolVars, sent, processed, disruptions>>

-----------------------------------------------------------------------------
(* AMQPConsumer.handle *)

\* Mutant: one delivery too many.
OnFailureLate(x) ==
  IF x.count >= MaxDeliveries \/ x.msg \in BadSchema THEN "reject" ELSE "retry"

\* Mutant: one delivery too few.
OnFailureEarly(x) ==
  IF x.count + 2 >= MaxDeliveries \/ x.msg \in BadSchema THEN "reject" ELSE "retry"

\* What handle does with a delivery whose processing failed.
OnFailure(x) ==
  IF x.count + 1 >= MaxDeliveries \/ x.msg \in BadSchema THEN "reject" ELSE "retry"

\* The delivery replica c is handling, or handles next.
Current(c) == Head(unacked[c])

\* processor.Execute returns, with or without an error.
Execute(c, ok) ==
  /\ stage[c] = "waiting" /\ unacked[c] # <<>>
  /\ ok => Current(c).msg \notin BadSchema
  /\ stage' = [stage EXCEPT ![c] = IF ok THEN "ack" ELSE OnFailure(Current(c))]
  /\ processed' = IF ok THEN processed \cup {Current(c).msg} ELSE processed
  /\ UNCHANGED <<queueVars, unacked, toolVars, sent, disruptions>>

\* Mutant: the copy's header is not incremented.
CopyForRetrySameCount(c) ==
  retry' = Append(retry, Current(c))

CopyForRetry(c) ==
  retry' = Append(retry, [Current(c) EXCEPT !.count = @ + 1])

\* requeueWithRetryCount: the copy is confirmed.
Requeue(c) ==
  /\ stage[c] = "retry"
  /\ CopyForRetry(c)
  /\ stage' = [stage EXCEPT ![c] = "ack"]
  /\ UNCHANGED <<main, dlq, unacked, toolVars, sent, processed, disruptions>>

\* Mutant: the original is acked although the copy is not confirmed.
RequeueFailsSilently(c) ==
  /\ stage[c] = "retry"
  /\ Disrupt
  /\ stage' = [stage EXCEPT ![c] = "ack"]
  /\ UNCHANGED <<queueVars, unacked, toolVars, sent, processed>>

\* Its publish fails, is nacked, or is not confirmed in time, in which case the
\* broker may have the copy all the same.
RequeueFails(c) ==
  /\ stage[c] = "retry"
  /\ Disrupt
  /\ CopyForRetry(c) \/ UNCHANGED retry
  /\ stage' = [stage EXCEPT ![c] = "nack"]
  /\ UNCHANGED <<main, dlq, unacked, toolVars, sent, processed>>

\* Ack, Reject(requeue = false), which dead-letters, or Nack(requeue = true).
Settle(c) ==
  /\ stage[c] \in {"ack", "reject", "nack"}
  /\ dlq' = IF stage[c] = "reject" THEN Append(dlq, Current(c)) ELSE dlq
  /\ main' = IF stage[c] = "nack" THEN <<Current(c)>> \o main ELSE main
  /\ unacked' = [unacked EXCEPT ![c] = Tail(@)]
  /\ stage' = [stage EXCEPT ![c] = "waiting"]
  /\ UNCHANGED <<retry, toolVars, sent, processed, disruptions>>

\* The replica is killed, shut down or loses its connection (acks are then lost
\* without notice, Run returns and the process ends); it is restarted.
ConnectionLost(c) ==
  /\ unacked[c] # <<>>
  /\ Disrupt
  /\ main' = unacked[c] \o main
  /\ unacked' = [unacked EXCEPT ![c] = <<>>]
  /\ stage' = [stage EXCEPT ![c] = "waiting"]
  /\ UNCHANGED <<retry, dlq, toolVars, sent, processed>>

-----------------------------------------------------------------------------
(* outbox-admin drain-dlq and purge-loadtest-dlq *)

StartDrain ==
  /\ tool = "none" /\ toolRuns < MaxToolRuns
  /\ tool' = "drain"
  /\ toolRuns' = toolRuns + 1
  /\ UNCHANGED <<queueVars, consVars, got, copied, quota, purged, unseen, sent, processed, disruptions>>

\* Mutant: the last message found is not looked at.
StartPurgeShort ==
  /\ tool = "none" /\ toolRuns < MaxToolRuns
  /\ tool' = "purge"
  /\ toolRuns' = toolRuns + 1
  /\ quota' = IF dlq = <<>> THEN 0 ELSE Len(dlq) - 1
  /\ unseen' = Ids(dlq)
  /\ UNCHANGED <<queueVars, consVars, got, copied, purged, sent, processed, disruptions>>

\* The scan is bounded by the depth of the DLQ at its start.
StartPurge ==
  /\ tool = "none" /\ toolRuns < MaxToolRuns
  /\ tool' = "purge"
  /\ toolRuns' = toolRuns + 1
  /\ quota' = Len(dlq)
  /\ unseen' = Ids(dlq)
  /\ UNCHANGED <<queueVars, consVars, got, copied, purged, sent, processed, disruptions>>

\* Mutant: drain-dlq's loop, until the DLQ is empty.
GetUntilEmpty ==
  /\ tool # "none" /\ got = <<>>
  /\ dlq # <<>>
  /\ got' = <<Head(dlq)>>
  /\ dlq' = Tail(dlq)
  /\ unseen' = unseen \ {Head(dlq).msg}
  /\ UNCHANGED <<quota, main, retry, consVars, tool, copied, toolRuns, purged,
                 sent, processed, disruptions>>

Get ==
  /\ tool # "none" /\ got = <<>>
  /\ dlq # <<>>
  /\ tool = "purge" => quota > 0
  /\ got' = <<Head(dlq)>>
  /\ dlq' = Tail(dlq)
  /\ quota' = IF tool = "purge" THEN quota - 1 ELSE quota
  /\ unseen' = unseen \ {Head(dlq).msg}
  /\ UNCHANGED <<main, retry, consVars, tool, copied, toolRuns, purged,
                 sent, processed, disruptions>>

Removed(x) == tool = "purge" /\ x.msg \in Loadtest

\* The copy goes to the main queue with its count reset, or as it is to the back
\* of the DLQ, which is q otherwise.
Republish(x, q) ==
  IF tool = "drain"
  THEN main' = Append(main, [x EXCEPT !.count = 0]) /\ dlq' = q
  ELSE main' = main /\ dlq' = Append(q, x)

RepublishConfirmed ==
  /\ got # <<>> /\ ~copied /\ ~Removed(Head(got))
  /\ Republish(Head(got), dlq)
  /\ copied' = TRUE
  /\ UNCHANGED <<retry, consVars, tool, got, quota, toolRuns, purged, unseen,
                 sent, processed, disruptions>>

\* Only a republished or a removed message is acked.
AckGot ==
  /\ got # <<>> /\ (copied \/ Removed(Head(got)))
  /\ got' = <<>>
  /\ copied' = FALSE
  /\ purged' = IF copied THEN purged ELSE purged \cup {Head(got).msg}
  /\ UNCHANGED <<queueVars, consVars, tool, quota, toolRuns, unseen, sent, processed, disruptions>>

\* The tool ends early: a republish fails, is nacked or not confirmed in time
\* (the broker may have the copy), or the process dies.  Its delivery goes back
\* to the front of the DLQ.
Abort ==
  /\ tool # "none"
  /\ Disrupt
  /\ tool' = "none"
  /\ got' = <<>> /\ copied' = FALSE /\ quota' = 0 /\ unseen' = {}
  /\ \/ dlq' = got \o dlq /\ main' = main
     \/ /\ got # <<>> /\ ~copied /\ ~Removed(Head(got))
        /\ Republish(Head(got), got \o dlq)
  /\ UNCHANGED <<retry, consVars, toolRuns, purged, sent, processed>>

Finish ==
  /\ tool # "none" /\ got = <<>>
  /\ dlq = <<>> \/ (tool = "purge" /\ quota = 0)
  /\ tool' = "none"
  /\ quota' = 0 /\ unseen' = {}
  /\ UNCHANGED <<queueVars, consVars, got, copied, toolRuns, purged, sent, processed, disruptions>>

-----------------------------------------------------------------------------

ConsumerStep(c) ==
  \/ \E ok \in BOOLEAN : Execute(c, ok)
  \/ Requeue(c)
  \/ Settle(c)

ToolStep ==
  Get \/ RepublishConfirmed \/ AckGot \/ Finish

Next ==
  \/ \E m \in Messages : Publish(m)
  \/ RetryExpires
  \/ \E c \in Consumers :
       Deliver(c) \/ ConsumerStep(c) \/ RequeueFails(c) \/ ConnectionLost(c)
  \/ StartDrain \/ StartPurge \/ ToolStep \/ Abort

Spec == Init /\ [][Next]_vars

\* Replicas are kept running, TTLs run out and a tool that was started works on.
Fairness ==
  /\ \A c \in Consumers : WF_vars(ConsumerStep(c)) /\ WF_vars(Deliver(c))
  /\ WF_vars(RetryExpires)
  /\ WF_vars(ToolStep)

FairSpec == Spec /\ Fairness

-----------------------------------------------------------------------------
(* Properties. *)

\* A message the relay handed over is processed, or a copy of it is still in a
\* queue or with somebody who will settle it; only a purge may remove it, and
\* only if it is a loadtest message.
MessageKept ==
  sent \subseteq processed \cup purged \cup InUse

\* A message is dead-lettered only after MAX_DELIVERIES failed deliveries, or
\* when its schema version is unknown (README.md, the table of outcomes).
DeadLetteredExhausted ==
  \A x \in Elems(dlq) : x.count + 1 >= MaxDeliveries \/ x.msg \in BadSchema

\* A purge that runs to its end has inspected every message that was in the DLQ
\* when it started, although the ones it keeps go round to the back.
PurgeScansAll ==
  [][tool = "purge" /\ tool' = "none" /\ disruptions' = disruptions => unseen = {}]_vars

\* A purge ends although the messages it keeps never leave the DLQ.
PurgeEnds == tool = "purge" ~> tool = "none"

\* Every message handed over is eventually processed, dead-lettered or purged.
EventuallyHandled ==
  \A m \in Messages :
    m \in sent ~> m \in processed \cup purged \cup Ids(dlq) \cup Ids(got)

=============================================================================
