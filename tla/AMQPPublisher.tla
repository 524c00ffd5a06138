---------------------------- MODULE AMQPPublisher ----------------------------
(***************************************************************************)
(* AMQPPublisher.PublishBatch (internal/adapter/messaging/publisher.go):   *)
(* the batches one outbox-worker process publishes on its one long-lived   *)
(* confirm-mode channel.  The mutex is held for a whole call, so calls are *)
(* sequential whichever dispatch loop makes them.                          *)
(*                                                                         *)
(* Messages are numbered in the order they are handed over.  A confirm is  *)
(* just its verdict (TRUE for an ack): the code never looks at delivery    *)
(* tags, it matches confirms to messages by counting.                      *)
(***************************************************************************)
EXTENDS PublishContract, Sequences

CONSTANTS
  Faults,       \* what may go wrong, see PublishContract
  BatchSizes,   \* the sizes of the batches handed over
  MaxMessages   \* bound on the messages of a behaviour

ASSUME FaultsAssumption      == Faults \subseteq PublishFaults
ASSUME BatchSizesAssumption  == BatchSizes \subseteq Nat \ {0}
ASSUME MaxMessagesAssumption == MaxMessages \in Nat

VARIABLES
  \* the publisher
  stage,       \* where the call is
  batch,       \* the messages of the current, or else the last, call
  cursor,      \* the message being fired or awaited
  failed,      \* the messages whose result is an error
  cached,      \* p.ch and p.confirms are set
  \* the channel the call uses
  streamOpen,  \* neither side has closed it
  wire,        \* messages written that the broker has neither taken nor refused
  acks,        \* confirms on their way back
  confirms,    \* the buffer of the NotifyPublish channel
  \* the broker
  connUp,      \* the connection; it is dialled once, at start-up
  \* the process
  ctxDone,     \* the context of both dispatch loops is cancelled: shutting down
  accepted,    \* the messages the broker took responsibility for
  \* history
  seen         \* the faults the current, or else the last, call met

callVars == <<stage, batch, cursor, failed, cached>>
chanVars == <<streamOpen, wire, acks, confirms>>
vars     == <<stage, batch, cursor, failed, cached,
              streamOpen, wire, acks, confirms, connUp, ctxDone, accepted, seen>>

Messages == 1..MaxMessages

TypeOK ==
  /\ stage \in {"idle", "firing", "awaiting", "closing"}
  /\ batch \subseteq Messages
  /\ cursor \in 0..MaxMessages + 1
  /\ failed \subseteq batch
  /\ cached \in BOOLEAN /\ streamOpen \in BOOLEAN /\ connUp \in BOOLEAN /\ ctxDone \in BOOLEAN
  /\ wire \in Seq(Messages)
  /\ acks \in Seq(BOOLEAN) /\ confirms \in Seq(BOOLEAN)
  /\ accepted \subseteq Messages
  /\ seen \subseteq PublishFaults

Init ==
  /\ stage = "idle" /\ batch = {} /\ cursor = 0 /\ failed = {}
  /\ cached = FALSE /\ streamOpen = FALSE
  /\ wire = <<>> /\ acks = <<>> /\ confirms = <<>>
  /\ connUp = TRUE /\ ctxDone = FALSE
  /\ accepted = {} /\ seen = {}

-----------------------------------------------------------------------------
(* The publisher. *)

NextBatch(n) == cursor + 1 .. cursor + n

IsLast(m) == m + 1 \notin batch

\* The call ends; cursor stays at the last message so that the next batch
\* continues the numbering.
Return == stage' = "idle" /\ cursor' = CHOOSE m \in batch : IsLast(m)

Advance(nextStage) ==
  IF IsLast(cursor) THEN Return ELSE stage' = nextStage /\ cursor' = cursor + 1

\* What a call knows to be wrong when it begins.  A pass that has fetched its
\* rows when the shutdown begins still makes its call.
SeenAtStart == IF ctxDone THEN {"done"} ELSE {}

\* Mutant: the results of the call before are kept.
StartWithOldResults(n) ==
  /\ stage = "idle" /\ cursor + n <= MaxMessages
  /\ cached
  /\ batch' = NextBatch(n)
  /\ cursor' = cursor + 1 /\ stage' = "firing"
  /\ seen' = SeenAtStart \cup IF streamOpen THEN {} ELSE {"channel"}
  /\ UNCHANGED <<failed, cached, chanVars, connUp, ctxDone, accepted>>

\* PublishBatch takes the mutex and gets a channel, the cached one or, if the
\* connection allows, a new one.
StartOnCachedChannel(n) ==
  /\ stage = "idle" /\ cursor + n <= MaxMessages
  /\ cached
  /\ batch' = NextBatch(n) /\ failed' = {}
  /\ cursor' = cursor + 1 /\ stage' = "firing"
  /\ seen' = SeenAtStart \cup IF streamOpen THEN {} ELSE {"channel"}
  /\ UNCHANGED <<cached, chanVars, connUp, ctxDone, accepted>>

StartOnNewChannel(n) ==
  /\ stage = "idle" /\ cursor + n <= MaxMessages
  /\ ~cached /\ connUp
  /\ batch' = NextBatch(n) /\ failed' = {}
  /\ cursor' = cursor + 1 /\ stage' = "firing"
  /\ seen' = SeenAtStart
  /\ cached' = TRUE /\ streamOpen' = TRUE
  /\ wire' = <<>> /\ acks' = <<>> /\ confirms' = <<>>
  /\ UNCHANGED <<connUp, ctxDone, accepted>>

\* No channel: every result is the error.
StartFails(n) ==
  /\ stage = "idle" /\ cursor + n <= MaxMessages
  /\ ~cached
  /\ ~connUp \/ "channel" \in Faults
  /\ batch' = NextBatch(n) /\ failed' = NextBatch(n)
  /\ cursor' = cursor + n
  /\ seen' = SeenAtStart \cup {"channel"}
  /\ UNCHANGED <<stage, cached, chanVars, connUp, ctxDone, accepted>>

Fire ==
  /\ stage = "firing" /\ streamOpen
  /\ wire' = Append(wire, cursor)
  /\ IF IsLast(cursor)
     THEN stage' = "awaiting" /\ cursor' = CHOOSE m \in batch : m - 1 \notin batch
     ELSE stage' = "firing" /\ cursor' = cursor + 1
  /\ UNCHANGED <<batch, failed, cached, streamOpen, acks, confirms, connUp, ctxDone, accepted, seen>>

\* Writing to a closed channel fails: this message and the rest get the error,
\* the results before it keep their zero value.
FireFails ==
  /\ stage = "firing" /\ ~streamOpen
  /\ failed' = From(batch, cursor)
  /\ cached' = FALSE
  /\ Return
  /\ UNCHANGED <<batch, chanVars, connUp, ctxDone, accepted, seen>>

\* Mutants: a nack counts as a confirm; a nack ends the call at once.
ReadAnyConfirm ==
  /\ stage = "awaiting" /\ confirms # <<>>
  /\ confirms' = Tail(confirms)
  /\ Advance("awaiting")
  /\ UNCHANGED <<batch, failed, cached, streamOpen, wire, acks, connUp, ctxDone, accepted, seen>>

ReadUntilNack ==
  /\ stage = "awaiting" /\ confirms # <<>>
  /\ failed' = IF Head(confirms) THEN failed ELSE From(batch, cursor)
  /\ confirms' = Tail(confirms)
  /\ IF Head(confirms) THEN Advance("awaiting") ELSE Return
  /\ UNCHANGED <<batch, cached, streamOpen, wire, acks, connUp, ctxDone, accepted, seen>>

\* awaitConfirm reads the next confirm, whichever message it is for.
ReadConfirm ==
  /\ stage = "awaiting" /\ confirms # <<>>
  /\ failed' = IF Head(confirms) THEN failed ELSE failed \cup {cursor}
  /\ confirms' = Tail(confirms)
  /\ Advance("awaiting")
  /\ UNCHANGED <<batch, cached, streamOpen, wire, acks, connUp, ctxDone, accepted, seen>>


\* The stream has been closed and its buffer is empty.
ReadClosed ==
  /\ stage = "awaiting" /\ confirms = <<>> /\ ~streamOpen
  /\ failed' = failed \cup {cursor}
  /\ cached' = FALSE
  /\ Advance("awaiting")
  /\ UNCHANGED <<batch, chanVars, connUp, ctxDone, accepted, seen>>

\* Five seconds are over: awaitConfirm calls invalidate, which sends
\* channel.close and waits for the broker's answer.  When a confirm is in the
\* buffer by then, select may still take the timer.  Once the context has
\* ended its case is ready before a timer can be.
Timeout ==
  /\ stage = "awaiting" /\ streamOpen /\ ~ctxDone
  /\ confirms # <<>> => "late" \in Faults
  /\ Faults \cap {"timeout", "late"} # {}
  /\ failed' = failed \cup {cursor}
  /\ stage' = "closing"
  /\ cached' = FALSE
  /\ seen' = seen \cup {IF confirms = <<>> THEN "timeout" ELSE "late"}
  /\ UNCHANGED <<batch, cursor, chanVars, connUp, ctxDone, accepted>>

\* The context has ended: awaitConfirm gives up on this message.  The channel
\* stays, and so does the confirm, to be counted for a later message.
CtxDone ==
  /\ stage = "awaiting" /\ ctxDone
  /\ failed' = failed \cup {cursor}
  /\ Advance("awaiting")
  /\ UNCHANGED <<batch, cached, chanVars, connUp, ctxDone, accepted, seen>>

\* channel.close is answered, or the channel is already dead.
CloseCompletes ==
  /\ stage = "closing"
  /\ streamOpen' = FALSE /\ acks' = <<>>
  /\ Advance("awaiting")
  /\ UNCHANGED <<batch, failed, cached, wire, confirms, connUp, ctxDone, accepted, seen>>

-----------------------------------------------------------------------------
(* The broker and the network. *)

\* The broker takes (a quorum queue: replicates) or refuses messages, and its
\* answers come back in the order they were published.  After the channel is
\* gone it may still have messages in its buffers, but no answer gets back.
BrokerHandles(ok) ==
  /\ wire # <<>>
  /\ ok \/ "nack" \in Faults
  /\ wire' = Tail(wire)
  /\ accepted' = IF ok THEN accepted \cup {Head(wire)} ELSE accepted
  /\ acks' = IF streamOpen THEN Append(acks, ok) ELSE acks
  /\ seen' = IF ~ok THEN seen \cup {"nack"} ELSE seen
  /\ UNCHANGED <<callVars, streamOpen, confirms, connUp, ctxDone>>

ConfirmArrives ==
  /\ acks # <<>> /\ streamOpen
  /\ stage = "closing" => "late" \in Faults
  /\ acks' = Tail(acks)
  /\ confirms' = Append(confirms, Head(acks))
  /\ seen' = IF stage = "closing" THEN seen \cup {"late"} ELSE seen
  /\ UNCHANGED <<callVars, streamOpen, wire, connUp, ctxDone, accepted>>

\* The channel, and with it perhaps the connection, is closed from the other
\* side; NotifyPublish's channel is closed after what it has buffered.
DeathFault ==
  CASE stage = "idle"     -> "channel"
    [] stage = "firing"   -> IF cursor - 1 \in batch THEN "fire" ELSE "channel"
    [] stage \in {"awaiting", "closing"} -> "timeout"

ChannelDies ==
  /\ streamOpen
  /\ DeathFault \in Faults
  /\ streamOpen' = FALSE /\ acks' = <<>>
  /\ connUp' \in IF connUp THEN BOOLEAN ELSE {FALSE}
  /\ seen' = IF stage = "idle" THEN seen ELSE seen \cup {DeathFault}
  /\ UNCHANGED <<callVars, wire, confirms, ctxDone, accepted>>

\* SIGINT or SIGTERM: main cancels the context of both loops.
Shutdown ==
  /\ "cancel" \in Faults /\ ~ctxDone
  /\ ctxDone' = TRUE
  /\ seen' = IF stage = "idle" THEN seen ELSE seen \cup {"cancel"}
  /\ UNCHANGED <<callVars, chanVars, connUp, accepted>>

-----------------------------------------------------------------------------

PublisherStep ==
  \/ Fire \/ FireFails
  \/ ReadConfirm \/ ReadClosed \/ Timeout \/ CtxDone
  \/ CloseCompletes

Environment ==
  \/ \E ok \in BOOLEAN : BrokerHandles(ok)
  \/ ConfirmArrives \/ ChannelDies
  \/ Shutdown

Next ==
  \/ \E n \in BatchSizes :
       StartOnCachedChannel(n) \/ StartOnNewChannel(n) \/ StartFails(n)
  \/ PublisherStep
  \/ Environment

Spec == Init /\ [][Next]_vars

\* The steps a call takes without the broker: Close on a dead channel returns
\* at once, on a live one it waits for the broker with no timeout.
OwnStep == PublisherStep /\ (stage = "closing" => ~streamOpen)

\* The call's own steps run, and the 5s timer fires.  Nothing is asked of the
\* broker: it need not handle a message, confirm one or answer channel.close.
FairSpec == Spec /\ WF_vars(OwnStep)

-----------------------------------------------------------------------------
(* Properties. *)

\* What a call returns is one of the outcomes the relay was checked against for
\* the faults the call met, also when the broker takes messages after the call
\* gave up on them, and when a shutdown makes the counting of confirms slip.
MeetsContract ==
  stage = "idle" /\ batch # {} =>
    Outcome(failed, accepted \cap batch) \in PublishOutcomes(batch, seen)

\* Until the shutdown a channel kept for the next call owes no confirms: a
\* confirm left over from one call would be counted for a message of the next.
ChannelDrained ==
  stage = "idle" /\ cached /\ streamOpen /\ ~ctxDone =>
    wire = <<>> /\ acks = <<>> /\ confirms = <<>>


=============================================================================
