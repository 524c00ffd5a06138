------------------------- MODULE AMQPPublisherProofs -------------------------
(***************************************************************************)
(* PublishBatch meets PublishContract, for any number of messages, any     *)
(* sizes of batches and any faults.                                        *)
(*                                                                         *)
(* The publisher matches confirms to messages by counting, so the          *)
(* invariant counts too: what has been written and not yet read back is    *)
(* split over the confirms buffer, the acks on their way and the wire, in  *)
(* this order, and the counter is where the buffer begins.  A shutdown     *)
(* lets the counting slip: from then on a confirm is only known to be of   *)
(* some message before the one it is counted for, and of a call that       *)
(* begins after the shutdown nothing is claimed.                           *)
(***************************************************************************)
EXTENDS AMQPPublisher, SequenceTheorems, TLAPS

(* Sequences, as far as they are used as queues. *)

LEMMA AppendFacts ==
  ASSUME NEW S, NEW s \in Seq(S), NEW x \in S
  PROVE  /\ Append(s, x) \in Seq(S)
         /\ Len(Append(s, x)) = Len(s) + 1
         /\ Append(s, x)[Len(s) + 1] = x
         /\ \A i \in 1..Len(s) : Append(s, x)[i] = s[i]
         /\ DOMAIN Append(s, x) = 1..Len(s) + 1
BY AppendProperties

LEMMA TailFacts ==
  ASSUME NEW S, NEW s \in Seq(S), s # <<>>
  PROVE  /\ Tail(s) \in Seq(S)
         /\ Len(s) > 0 /\ Len(Tail(s)) = Len(s) - 1
         /\ \A i \in 1..Len(s) - 1 : Tail(s)[i] = s[i + 1]
         /\ Head(s) = s[1] /\ Head(s) \in S
         /\ DOMAIN Tail(s) = 1..Len(s) - 1
BY HeadTailProperties, EmptySeq

-----------------------------------------------------------------------------
(* The invariant. *)

OnWire == {wire[i] : i \in DOMAIN wire}

\* Once all messages before f are written, this is the one the broker looks at next.
Handled(f) == f - Len(wire)

\* The wire holds the last messages written, and the broker has a verdict on
\* those before them.
Handling(f) ==
  /\ \A i \in DOMAIN wire : wire[i] = Handled(f) + i - 1
  /\ \A q \in batch : IF q < Handled(f) THEN q \in accepted \/ "nack" \in seen
                                        ELSE q \notin accepted

\* The confirms that are to be read, or on their way, are the broker's verdicts on
\* r and the following messages.
Answering(r, f) ==
  /\ r + Len(confirms) + Len(acks) <= Handled(f)
  /\ streamOpen => r + Len(confirms) + Len(acks) = Handled(f)
  /\ ~streamOpen => acks = <<>>
  /\ \A i \in DOMAIN confirms : confirms[i] <=> r + i - 1 \in accepted
  /\ \A i \in DOMAIN acks : acks[i] <=> r + Len(confirms) + i - 1 \in accepted

\* The results before m are the broker's verdicts, and will stay so.
Judged(m) ==
  \A q \in Before(batch, m) :
    /\ q \notin OnWire
    /\ q \in accepted <=> q \notin failed
    /\ q \in failed => "nack" \in seen

Firing(lo, hi) ==
  /\ stage = "firing" /\ cached /\ failed = {} /\ cursor \in lo..hi
  /\ Handling(cursor) /\ Answering(lo, cursor)
  /\ ~streamOpen => (IF cursor = lo THEN "channel" ELSE "fire") \in seen

Awaiting(lo, hi) ==
  /\ stage = "awaiting" /\ cached /\ cursor \in lo..hi
  /\ Judged(cursor) /\ failed \subseteq Before(batch, cursor)
  /\ Handling(hi + 1) /\ Answering(cursor, hi + 1)
  /\ ~streamOpen => "timeout" \in seen

Closing(lo, hi) ==
  /\ stage = "closing" /\ ~cached /\ cursor \in lo..hi
  /\ Judged(cursor) /\ cursor \in failed
  /\ Handling(hi + 1) /\ Answering(cursor, hi + 1)
  /\ (IF confirms = <<>> THEN "timeout" ELSE "late") \in seen

\* After the timeout on m: nothing more is read, or what is read is a verdict on
\* the message before.
GaveUp(m, last) ==
  "timeout" \in seen /\ \A q \in batch : m <= q /\ q <= last => q \in failed

Shifted(m, last) ==
  /\ "late" \in seen /\ m \in failed
  /\ \A q \in batch : m < q /\ q <= last /\ q \notin failed => q - 1 \in accepted

\* After the context ended on m: what is read is a verdict on some message before.
AcceptedBefore(k) == \E p \in batch \cap accepted : p < k

Skipped(m, last) ==
  /\ "cancel" \in seen /\ m \in failed
  /\ \A q \in batch : m < q /\ q <= last /\ q \notin failed => AcceptedBefore(q)

Draining(lo, hi) ==
  /\ stage = "awaiting" /\ ~cached /\ ~streamOpen /\ cursor \in lo..hi
  /\ \E m \in batch :
       /\ m < cursor /\ Judged(m)
       /\ \/ GaveUp(m, cursor - 1) /\ confirms = <<>>
          \/ /\ Shifted(m, cursor - 1)
             /\ \A i \in DOMAIN confirms : confirms[i] => cursor + i - 2 \in accepted

Slipping(lo, hi) ==
  /\ stage = "awaiting" /\ ctxDone /\ cursor \in lo..hi
  /\ \E m \in batch : m < cursor /\ Judged(m) /\ Skipped(m, cursor - 1)
  /\ \A i \in DOMAIN confirms : confirms[i] => AcceptedBefore(cursor + i - 1)
  /\ streamOpen =>
       /\ \A i \in DOMAIN acks : acks[i] => AcceptedBefore(cursor + Len(confirms) + i - 1)
       /\ \A i \in DOMAIN wire :
            wire[i] \in batch /\ wire[i] < cursor + Len(confirms) + Len(acks) + i - 1

\* How a call has ended, in a form that a broker that goes on handling what is
\* left on the wire does not disturb.
Answers       == \A q \in batch : q \notin OnWire /\ (q \in accepted <=> q \notin failed)
                                    /\ (q \in failed => "nack" \in seen)
NothingSent   == "channel" \in seen /\ failed = batch /\ batch \cap (OnWire \cup accepted) = {}
Interrupted(hi) ==
  \E m \in batch : Judged(m) /\ (GaveUp(m, hi) \/ Shifted(m, hi) \/ Skipped(m, hi))
CutShort      == "fire" \in seen /\ \E m \in batch :
                   failed = From(batch, m) /\ Handling(m) /\ Handled(m) \in batch

Idle(lo, hi) ==
  /\ stage = "idle" /\ cursor = hi
  /\ cached /\ ~ctxDone => wire = <<>> /\ acks = <<>> /\ confirms = <<>>
  /\ Answers \/ NothingSent \/ Interrupted(hi) \/ CutShort

BatchIs(lo, hi) ==
  /\ lo \in Messages /\ hi \in Messages /\ lo <= hi /\ batch = lo..hi
  /\ \A q \in accepted : q <= hi
  /\ \A i \in DOMAIN wire : wire[i] <= hi

\* A call that began when the context had ended already.
AfterShutdown(lo, hi) ==
  /\ "done" \in seen /\ ctxDone
  /\ stage # "closing" /\ cursor \in lo..hi /\ (stage = "idle" => cursor = hi)

ShutdownSeen == ctxDone /\ stage # "idle" => seen \cap ShutdownFaults # {}

StageIs(lo, hi) ==
  \/ Firing(lo, hi) \/ Awaiting(lo, hi) \/ Closing(lo, hi) \/ Draining(lo, hi)
  \/ Slipping(lo, hi) \/ Idle(lo, hi)
  \/ AfterShutdown(lo, hi)

Fresh ==
  /\ stage = "idle" /\ batch = {} /\ cursor = 0 /\ ~cached /\ ~streamOpen
  /\ wire = <<>> /\ acks = <<>> /\ accepted = {}

CallInv == ShutdownSeen /\ \E lo, hi \in Messages : BatchIs(lo, hi) /\ StageIs(lo, hi)

PublisherInv == TypeOK /\ (Fresh \/ CallInv)

-----------------------------------------------------------------------------
(* Batches are intervals. *)

LEMMA BatchEnds ==
  ASSUME NEW lo \in Int, NEW hi \in Int, lo <= hi, batch = lo..hi
  PROVE  /\ \A m \in batch : IsLast(m) <=> m = hi
         /\ (CHOOSE m \in batch : IsLast(m)) = hi
         /\ (CHOOSE m \in batch : m - 1 \notin batch) = lo
<1>1. \A m \in batch : IsLast(m) <=> m = hi
  BY DEF IsLast
<1>2. hi \in batch /\ lo \in batch
  OBVIOUS
<1>3. (CHOOSE m \in batch : IsLast(m)) = hi
  BY <1>1, <1>2
<1>4. \A m \in batch : m - 1 \notin batch <=> m = lo
  OBVIOUS
<1>5. (CHOOSE m \in batch : m - 1 \notin batch) = lo
  BY <1>2, <1>4
<1>. QED  BY <1>1, <1>3, <1>5

LEMMA ReturnIs ==
  ASSUME NEW lo \in Int, NEW hi \in Int, lo <= hi, batch = lo..hi, Return
  PROVE  stage' = "idle" /\ cursor' = hi
<1>1. (CHOOSE m \in batch : IsLast(m)) = hi
  BY BatchEnds
<1>. QED  BY <1>1 DEF Return

LEMMA AdvanceIs ==
  ASSUME NEW lo \in Int, NEW hi \in Int, lo <= hi, batch = lo..hi, cursor \in batch,
         Advance("awaiting")
  PROVE  IF cursor = hi THEN stage' = "idle" /\ cursor' = hi
                        ELSE stage' = "awaiting" /\ cursor' = cursor + 1
<1>1. IsLast(cursor) <=> cursor = hi
  BY BatchEnds
<1>. QED  BY <1>1, ReturnIs DEF Advance

\* The message before q in a batch is q - 1.
LEMMA PredecessorIs ==
  ASSUME NEW lo \in Int, NEW hi \in Int, NEW q \in lo..hi, q # lo
  PROVE  Predecessor(lo..hi, q) = q - 1
<1>1. q - 1 \in Before(lo..hi, q) /\ \A x \in Before(lo..hi, q) : x <= q - 1
  BY DEF Before
<1>2. \A p \in Before(lo..hi, q) : (\A x \in Before(lo..hi, q) : x <= p) => p = q - 1
  BY <1>1 DEF Before
<1>. QED  BY <1>1, <1>2 DEF Predecessor

LEMMA NumbersAre ==
  /\ MaxMessages \in Nat /\ Messages \subseteq Nat
  /\ \A m \in Messages : m >= 1 /\ m <= MaxMessages
BY MaxMessagesAssumption DEF Messages

-----------------------------------------------------------------------------
(* What the invariant says of a call that has returned. *)

LEMMA ContractMet ==
  ASSUME TypeOK, NEW lo, NEW hi, BatchIs(lo, hi), Idle(lo, hi) \/ AfterShutdown(lo, hi)
  PROVE  Outcome(failed, accepted \cap batch) \in PublishOutcomes(batch, seen)
<1>. DEFINE o == Outcome(failed, accepted \cap batch)
<1>1. o.failed = failed /\ o.accepted = accepted \cap batch
  BY DEF Outcome
<1>2. o \in [failed : SUBSET batch, accepted : SUBSET batch]
  BY DEF Outcome, TypeOK
<1>3. lo \in Int /\ hi \in Int /\ batch = lo..hi /\ failed \subseteq batch
  BY NumbersAre DEF BatchIs, TypeOK
<1>. SUFFICES o \in PublishOutcomes(batch, seen)
  OBVIOUS
<1>. HIDE DEF o
<1>0. \/ Answered(o, batch, seen)
      \/ "channel" \in seen /\ NoChannel(o, batch)
      \/ "timeout" \in seen /\ \E m \in batch : TimedOut(o, batch, m, seen)
      \/ "fire" \in seen /\ \E m \in batch : FireFailed(o, batch, m, seen)
      \/ "late" \in seen /\ \E m \in batch : LateConfirms(o, batch, m, seen)
      \/ "cancel" \in seen /\ \E m \in batch : CutOff(o, batch, m, seen)
      \/ "done" \in seen
      => o \in PublishOutcomes(batch, seen)
  BY <1>2, Zenon DEF PublishOutcomes
<1>4. CASE Answers
  <2>1. Verdicts(o, batch, seen)
    BY <1>1, <1>4 DEF Answers, Verdicts
  <2>. QED  BY <1>0, <2>1 DEF Answered
<1>5. CASE NothingSent
  <2>1. o = Outcome(batch, {})
    BY <1>5 DEF NothingSent, o
  <2>. QED  BY <1>0, <1>5, <2>1 DEF NothingSent, NoChannel
<1>6. ASSUME NEW m \in batch, Judged(m)
      PROVE  Verdicts(o, Before(batch, m), seen)
  BY <1>1, <1>6 DEF Judged, Verdicts, Before
<1>7. ASSUME NEW m \in batch, Judged(m), GaveUp(m, hi)
      PROVE  o \in PublishOutcomes(batch, seen)
  <2>1. TimedOut(o, batch, m, seen)
    BY <1>1, <1>3, <1>6, <1>7 DEF TimedOut, GaveUp, From
  <2>. QED  BY <1>0, <1>7, <2>1 DEF GaveUp
<1>8. ASSUME NEW m \in batch, Judged(m), Shifted(m, hi)
      PROVE  o \in PublishOutcomes(batch, seen)
  <2>1. ASSUME NEW q \in From(batch, m) \ failed
        PROVE  Predecessor(batch, q) \in accepted \cap batch
    <3>1. q \in batch /\ m < q
      BY <1>3, <1>8 DEF From, Shifted
    <3>2. Predecessor(batch, q) = q - 1
      BY <1>3, <3>1, PredecessorIs
    <3>. QED  BY <1>3, <1>8, <3>1, <3>2 DEF Shifted
  <2>2. LateConfirms(o, batch, m, seen)
    BY <1>1, <1>6, <1>8, <2>1 DEF LateConfirms, Shifted
  <2>. QED  BY <1>0, <1>8, <2>2 DEF Shifted
<1>9. CASE CutShort
  <2>. PICK m \in batch : failed = From(batch, m) /\ Handling(m) /\ Handled(m) \in batch
    BY <1>9 DEF CutShort
  <2>1. Handled(m) <= m
    BY <1>3 DEF Handled, TypeOK
  <2>2. /\ o.accepted \subseteq Before(batch, Handled(m))
        /\ o.accepted # Before(batch, Handled(m)) => "nack" \in seen
    BY <1>1, <1>3 DEF Handling, Before
  <2>3. Handled(m) \in batch \ {q \in batch : q > m}
    BY <1>3, <2>1
  <2>4. FireFailed(o, batch, m, seen)
    BY <1>1, <2>2, <2>3 DEF FireFailed
  <2>. QED  BY <1>0, <1>9, <2>4 DEF CutShort
<1>10. ASSUME NEW m \in batch, Judged(m), Skipped(m, hi)
       PROVE  o \in PublishOutcomes(batch, seen)
  <2>1. ASSUME NEW q \in From(batch, m) \ failed
        PROVE  Before(batch, q) \cap (accepted \cap batch) # {}
    <3>1. q \in batch /\ m < q /\ q <= hi
      BY <1>3, <1>10 DEF From, Skipped
    <3>2. AcceptedBefore(q)
      BY <1>10, <3>1 DEF Skipped
    <3>. QED  BY <3>2 DEF AcceptedBefore, Before
  <2>2. CutOff(o, batch, m, seen)
    BY <1>1, <1>6, <1>10, <2>1 DEF CutOff, Skipped
  <2>. QED  BY <1>0, <1>10, <2>2 DEF Skipped
<1>11. CASE AfterShutdown(lo, hi)
  BY <1>0, <1>11 DEF AfterShutdown
<1>. QED  BY <1>4, <1>5, <1>7, <1>8, <1>9, <1>10, <1>11 DEF Idle, Interrupted

-----------------------------------------------------------------------------
(* Types that do not depend on where the call is. *)

QueuesOK ==
  /\ wire \in Seq(Messages) /\ acks \in Seq(BOOLEAN) /\ confirms \in Seq(BOOLEAN)
  /\ accepted \subseteq Messages /\ seen \subseteq PublishFaults

LEMMA WireIsNumbers ==
  ASSUME TypeOK
  PROVE  \A i \in DOMAIN wire : wire[i] \in Messages /\ wire[i] \in Int
<1>1. wire \in Seq(Messages)
  BY DEF TypeOK
<1>2. \A i \in DOMAIN wire : wire[i] \in Messages
  BY <1>1
<1>3. \A m \in Messages : m \in Int
  BY DEF Messages
<1>. QED  BY <1>2, <1>3

-----------------------------------------------------------------------------
(* A call begins. *)

LEMMA BetweenCalls ==
  ASSUME PublisherInv, stage = "idle"
  PROVE  \/ Fresh
         \/ \E lo, hi \in Messages :
              /\ BatchIs(lo, hi) /\ cursor = hi
              /\ cached /\ ~ctxDone => wire = <<>> /\ acks = <<>> /\ confirms = <<>>
BY DEF PublisherInv, CallInv, StageIs, Firing, Awaiting, Closing, Draining, Slipping, Idle, AfterShutdown

LEMMA StartInFresh ==
  ASSUME PublisherInv, stage = "idle", NEW n \in BatchSizes, cursor + n <= MaxMessages
  PROVE  /\ NextBatch(n) = cursor + 1 .. cursor + n
         /\ cursor + 1 \in Messages /\ cursor + n \in Messages /\ cursor + 1 <= cursor + n
         /\ cursor \in Nat /\ NextBatch(n) \subseteq Messages
         /\ \A q \in accepted : q <= cursor
         /\ \A i \in DOMAIN wire : wire[i] <= cursor
         /\ cached /\ ~ctxDone => wire = <<>> /\ acks = <<>> /\ confirms = <<>>
<1>1. cursor \in Nat /\ n \in Nat /\ n > 0
  BY BatchSizesAssumption, NumbersAre DEF PublisherInv, TypeOK
<1>2. cursor + 1 \in Messages /\ cursor + n \in Messages /\ cursor + 1 <= cursor + n
  BY <1>1, MaxMessagesAssumption DEF Messages
<1>3. NextBatch(n) = cursor + 1 .. cursor + n /\ NextBatch(n) \subseteq Messages
  BY <1>1, MaxMessagesAssumption DEF Messages, NextBatch
<1>4. CASE Fresh
  BY <1>1, <1>2, <1>3, <1>4 DEF Fresh
<1>5. CASE \E lo, hi \in Messages :
             /\ BatchIs(lo, hi) /\ cursor = hi
             /\ cached /\ ~ctxDone => wire = <<>> /\ acks = <<>> /\ confirms = <<>>
  BY <1>1, <1>2, <1>3, <1>5 DEF BatchIs
<1>. QED  BY <1>4, <1>5, BetweenCalls

\* On a channel with nothing outstanding, or a new one, the call fires from the
\* first message on.
LEMMA BeginFiring ==
  ASSUME TypeOK, TypeOK', NEW lo \in Messages, NEW hi \in Messages, lo <= hi, batch' = lo..hi,
         accepted' = accepted, \A q \in accepted : q < lo,
         stage' = "firing", cursor' = lo, failed' = {}, cached',
         wire' = <<>>, acks' = <<>>, confirms' = <<>>,
         ~streamOpen' => "channel" \in seen'
  PROVE  BatchIs(lo, hi)' /\ Firing(lo, hi)'
<1>1. lo \in Int /\ hi \in Int /\ accepted \subseteq Int
  BY NumbersAre DEF TypeOK
<1>2. BatchIs(lo, hi)'
  BY <1>1 DEF BatchIs
<1>3. Handled(lo)' = lo
  BY <1>1 DEF Handled
<1>4. Handling(lo)'
  BY <1>1, <1>3 DEF Handling
<1>5. Answering(lo, lo)'
  BY <1>1, <1>3 DEF Answering
<1>. QED  BY <1>1, <1>2, <1>4, <1>5 DEF Firing

LEMMA StartCachedStep ==
  ASSUME PublisherInv, NEW n \in BatchSizes, StartOnCachedChannel(n) \/ StartOnNewChannel(n)
  PROVE  PublisherInv'
<1>0. TypeOK /\ stage = "idle" /\ cursor + n <= MaxMessages
  BY DEF PublisherInv, StartOnCachedChannel, StartOnNewChannel
<1>. PICK lo \in Messages, hi \in Messages : lo = cursor + 1 /\ hi = cursor + n
  BY <1>0, StartInFresh
<1>1. /\ NextBatch(n) = lo..hi /\ lo \in Messages /\ hi \in Messages /\ lo <= hi
      /\ cursor \in Nat /\ NextBatch(n) \subseteq Messages
      /\ \A q \in accepted : q <= cursor
      /\ \A i \in DOMAIN wire : wire[i] <= cursor
      /\ cached /\ ~ctxDone => wire = <<>> /\ acks = <<>> /\ confirms = <<>>
  BY <1>0, StartInFresh
<1>2. /\ batch' = lo..hi /\ stage' = "firing" /\ cursor' = lo /\ failed' = {} /\ cached'
      /\ accepted' = accepted /\ ctxDone' = ctxDone
      /\ \/ wire' = <<>> /\ acks' = <<>> /\ confirms' = <<>>
         \/ cached /\ wire' = wire /\ acks' = acks /\ confirms' = confirms
      /\ SeenAtStart \subseteq seen' /\ (~streamOpen' => "channel" \in seen')
      /\ seen' \subseteq PublishFaults /\ streamOpen' \in BOOLEAN /\ cached' \in BOOLEAN
      /\ connUp' \in BOOLEAN
  BY <1>0, <1>1 DEF StartOnCachedChannel, StartOnNewChannel, chanVars, TypeOK, PublishFaults,
                    ShutdownFaults, SeenAtStart
<1>3. \A q \in accepted : q < lo
  BY <1>0, <1>1, NumbersAre DEF TypeOK
<1>4. TypeOK'
  <2>1. lo \in 0..MaxMessages + 1
    BY <1>1, NumbersAre
  <2>2. wire' \in Seq(Messages) /\ acks' \in Seq(BOOLEAN) /\ confirms' \in Seq(BOOLEAN)
    <3>1. \A S : <<>> \in Seq(S)
      OBVIOUS
    <3>2. wire \in Seq(Messages) /\ acks \in Seq(BOOLEAN) /\ confirms \in Seq(BOOLEAN)
      BY <1>0 DEF TypeOK
    <3>. QED  BY Zenon, <1>2, <3>1, <3>2
  <2>. QED  BY <1>0, <1>1, <1>2, <2>1, <2>2 DEF TypeOK
<1>5. ctxDone => "done" \in seen'
  BY <1>2 DEF SeenAtStart
<1>6. ShutdownSeen'
  BY <1>2, <1>5 DEF ShutdownSeen, ShutdownFaults
<1>7. CASE ctxDone
  <2>1. BatchIs(lo, hi)'
    <3>1. \A q \in accepted' : q <= hi
      BY <1>0, <1>1, <1>2, NumbersAre DEF TypeOK
    <3>2. \A i \in DOMAIN wire' : wire'[i] <= hi
      BY <1>0, <1>1, <1>2, NumbersAre, WireIsNumbers
    <3>. QED  BY <1>1, <1>2, <3>1, <3>2 DEF BatchIs
  <2>2. AfterShutdown(lo, hi)'
    BY <1>1, <1>2, <1>5, <1>7, NumbersAre DEF AfterShutdown
  <2>. QED  BY <1>4, <1>6, <2>1, <2>2 DEF PublisherInv, CallInv, StageIs
<1>8. CASE ~ctxDone
  <2>1. wire' = <<>> /\ acks' = <<>> /\ confirms' = <<>>
    BY <1>1, <1>2, <1>8
  <2>2. BatchIs(lo, hi)' /\ Firing(lo, hi)'
    BY <1>0, <1>1, <1>2, <1>3, <1>4, <2>1, BeginFiring
  <2>. QED  BY <1>4, <1>6, <2>2 DEF PublisherInv, CallInv, StageIs
<1>. QED  BY <1>7, <1>8

LEMMA StartFailsStep ==
  ASSUME PublisherInv, NEW n \in BatchSizes, StartFails(n)
  PROVE  PublisherInv'
<1>0. TypeOK /\ stage = "idle" /\ cursor + n <= MaxMessages
  BY DEF PublisherInv, StartFails
<1>. PICK lo \in Messages, hi \in Messages : lo = cursor + 1 /\ hi = cursor + n
  BY <1>0, StartInFresh
<1>2. /\ NextBatch(n) = lo..hi /\ lo \in Messages /\ hi \in Messages /\ lo <= hi
      /\ cursor \in Nat /\ NextBatch(n) \subseteq Messages
      /\ \A q \in accepted : q <= cursor
      /\ \A i \in DOMAIN wire : wire[i] <= cursor
  BY <1>0, StartInFresh
<1>3. /\ batch' = lo..hi /\ stage' = "idle" /\ cursor' = hi /\ failed' = batch' /\ ~cached'
      /\ wire' = wire /\ acks' = acks /\ confirms' = confirms /\ accepted' = accepted
      /\ "channel" \in seen' /\ seen' \subseteq PublishFaults /\ streamOpen' = streamOpen
      /\ cached' = cached /\ connUp' = connUp /\ ctxDone' = ctxDone
  BY <1>0, <1>2 DEF StartFails, chanVars, SeenAtStart, PublishFaults, ShutdownFaults
<1>4. TypeOK'
  <2>1. hi \in 0..MaxMessages + 1
    BY <1>2, NumbersAre
  <2>. QED  BY <1>0, <1>2, <1>3, <2>1 DEF TypeOK
<1>5. hi \in Int /\ hi >= cursor /\ accepted \subseteq Int
      /\ \A i \in DOMAIN wire : wire[i] \in Int
  BY <1>0, <1>2, NumbersAre, WireIsNumbers DEF TypeOK
<1>6. BatchIs(lo, hi)'
  BY <1>2, <1>3, <1>5 DEF BatchIs
<1>7. NothingSent'
  BY <1>2, <1>3, <1>5 DEF NothingSent, OnWire
<1>8. Idle(lo, hi)' /\ ShutdownSeen'
  BY <1>3, <1>7 DEF Idle, ShutdownSeen
<1>. QED  BY <1>2, <1>4, <1>6, <1>8 DEF PublisherInv, CallInv, StageIs

-----------------------------------------------------------------------------
(* Writing the batch. *)

LEMMA Lengths ==
  ASSUME TypeOK
  PROVE  /\ Len(wire) \in Nat /\ DOMAIN wire = 1..Len(wire)
         /\ Len(acks) \in Nat /\ DOMAIN acks = 1..Len(acks)
         /\ Len(confirms) \in Nat /\ DOMAIN confirms = 1..Len(confirms)
         /\ cursor \in Nat /\ cursor <= MaxMessages + 1
BY MaxMessagesAssumption DEF TypeOK

\* A call that is under way is in the stage its variable says.
LEMMA InStage ==
  ASSUME PublisherInv, stage # "idle"
  PROVE  /\ ShutdownSeen
         /\ \E lo, hi \in Messages :
              /\ BatchIs(lo, hi)
              /\ stage = "firing" => Firing(lo, hi) \/ AfterShutdown(lo, hi)
              /\ stage = "awaiting" => \/ Awaiting(lo, hi) \/ Draining(lo, hi)
                                       \/ Slipping(lo, hi) \/ AfterShutdown(lo, hi)
              /\ stage = "closing" => Closing(lo, hi)
BY DEF PublisherInv, Fresh, CallInv, StageIs, Firing, Awaiting, Closing, Draining, Slipping, Idle,
       AfterShutdown

LEMMA FireStep ==
  ASSUME PublisherInv, Fire
  PROVE  PublisherInv'
<1>0. TypeOK /\ stage = "firing" /\ streamOpen
  BY DEF PublisherInv, Fire
<1>. PICK lo \in Messages, hi \in Messages :
       BatchIs(lo, hi) /\ (Firing(lo, hi) \/ AfterShutdown(lo, hi))
  BY <1>0, InStage
<1>. PICK c \in Messages : c = cursor
  <2>1. cursor \in batch /\ batch \subseteq Messages
    BY <1>0 DEF BatchIs, Firing, AfterShutdown, TypeOK
  <2>. QED  BY <2>1
<1>1. lo \in Int /\ hi \in Int /\ c \in Int /\ lo <= c /\ c <= hi /\ batch = lo..hi
      /\ hi <= MaxMessages /\ MaxMessages \in Nat
  BY NumbersAre DEF BatchIs, Firing, AfterShutdown
<1>2. /\ wire' \in Seq(Messages) /\ Len(wire') = Len(wire) + 1 /\ DOMAIN wire' = 1..Len(wire) + 1
      /\ wire'[Len(wire) + 1] = c /\ \A i \in 1..Len(wire) : wire'[i] = wire[i]
  BY <1>0, AppendFacts DEF TypeOK, Fire
<1>3. UNCHANGED <<batch, failed, cached, streamOpen, acks, confirms, connUp, ctxDone, accepted, seen>>
  BY DEF Fire
<1>4. IF c = hi THEN stage' = "awaiting" /\ cursor' = lo ELSE stage' = "firing" /\ cursor' = c + 1
  <2>1. (IsLast(c) <=> c = hi) /\ (CHOOSE m \in batch : m - 1 \notin batch) = lo
    BY <1>1, BatchEnds
  <2>. QED  BY <2>1 DEF Fire
<1>5. TypeOK'
  <2>1. cursor' \in 0..MaxMessages + 1 /\ stage' \in {"firing", "awaiting"}
    BY <1>1, <1>4, NumbersAre
  <2>. QED  BY <1>0, <1>2, <1>3, <2>1 DEF TypeOK
<1>6. BatchIs(lo, hi)'
  <2>1. ASSUME NEW i \in 1..Len(wire) + 1 PROVE wire'[i] <= hi
    <3>1. CASE i \in 1..Len(wire)
      BY <1>0, <1>2, <3>1, Lengths DEF BatchIs
    <3>2. CASE i = Len(wire) + 1
      BY <1>1, <1>2, <3>2
    <3>. QED  BY <1>0, <3>1, <3>2, Lengths
  <2>. QED  BY <1>2, <1>3, <2>1 DEF BatchIs
<1>7. ShutdownSeen'
  BY <1>0, <1>3, InStage DEF ShutdownSeen
<1>. SUFFICES StageIs(lo, hi)'
  BY <1>5, <1>6, <1>7 DEF PublisherInv, CallInv
<1>8. CASE AfterShutdown(lo, hi)
  BY <1>1, <1>3, <1>4, <1>8 DEF AfterShutdown, StageIs
<1>9. CASE Firing(lo, hi)
  <2>1. Handled(c + 1)' = Handled(c) /\ Handled(c) = c - Len(wire)
    BY <1>0, <1>1, <1>2, Lengths DEF Handled
  <2>2. Handling(c) /\ Answering(lo, c)
    BY <1>9 DEF Firing
  <2>3. Handling(c + 1)'
    <3>1. ASSUME NEW i \in 1..Len(wire) + 1
          PROVE  wire'[i] = Handled(c + 1)' + i - 1
      <4>1. CASE i = Len(wire) + 1
        BY <1>0, <1>1, <1>2, <2>1, <4>1, Lengths
      <4>2. CASE i \in 1..Len(wire)
        BY <1>0, <1>2, <2>1, <2>2, <4>2, Lengths DEF Handling
      <4>. QED  BY <1>0, <4>1, <4>2, Lengths
    <3>. QED  BY <1>2, <1>3, <2>1, <2>2, <3>1 DEF Handling
  <2>4. Answering(lo, c + 1)'
    BY <1>3, <2>1, <2>2 DEF Answering
  <2>5. CASE c = hi
    <3>1. Judged(lo)'
      BY <1>1, <1>3 DEF Judged, Before
    <3>. QED  BY <1>0, <1>1, <1>3, <1>4, <1>9, <2>3, <2>4, <2>5, <3>1 DEF Awaiting, Firing, StageIs
  <2>6. CASE c # hi
    BY <1>0, <1>1, <1>3, <1>4, <1>9, <2>3, <2>4, <2>6 DEF Firing, StageIs
  <2>. QED  BY <2>5, <2>6
<1>. QED  BY <1>8, <1>9

LEMMA FireFailsStep ==
  ASSUME PublisherInv, FireFails
  PROVE  PublisherInv'
<1>0. TypeOK /\ stage = "firing" /\ ~streamOpen
  BY DEF PublisherInv, FireFails
<1>. PICK lo \in Messages, hi \in Messages :
       BatchIs(lo, hi) /\ (Firing(lo, hi) \/ AfterShutdown(lo, hi))
  BY <1>0, InStage
<1>. PICK c \in Messages : c = cursor
  <2>1. cursor \in batch /\ batch \subseteq Messages
    BY <1>0 DEF BatchIs, Firing, AfterShutdown, TypeOK
  <2>. QED  BY <2>1
<1>1. lo \in Int /\ hi \in Int /\ c \in Int /\ lo <= c /\ c <= hi /\ batch = lo..hi
      /\ hi <= MaxMessages /\ MaxMessages \in Nat /\ hi >= 1
  BY NumbersAre DEF BatchIs, Firing, AfterShutdown
<1>2. /\ UNCHANGED <<batch, streamOpen, wire, acks, confirms, connUp, ctxDone, accepted, seen>>
      /\ failed' = From(batch, c) /\ ~cached' /\ cached' \in BOOLEAN
      /\ stage' = "idle" /\ cursor' = hi
  <2>1. Return /\ failed' = From(batch, cursor)
    BY Zenon DEF FireFails
  <2>2. stage' = "idle" /\ cursor' = hi
    BY <1>1, <2>1, ReturnIs
  <2>. QED  BY <2>1, <2>2 DEF FireFails, chanVars
<1>3. TypeOK' /\ BatchIs(lo, hi)' /\ ShutdownSeen'
  BY <1>0, <1>1, <1>2 DEF TypeOK, BatchIs, From, ShutdownSeen
<1>. SUFFICES StageIs(lo, hi)'
  BY <1>3 DEF PublisherInv, CallInv
<1>4. CASE AfterShutdown(lo, hi)
  BY <1>1, <1>2, <1>4 DEF AfterShutdown, StageIs
<1>5. ASSUME Firing(lo, hi) PROVE Handling(c) /\ Answering(lo, c)
  BY <1>5 DEF Firing
<1>6. CASE Firing(lo, hi) /\ c = lo
  <2>1. failed' = batch
    BY <1>1, <1>2, <1>6 DEF From
  <2>2. Handled(c) = lo - Len(wire)
    BY <1>6 DEF Handled
  <2>3. batch \cap accepted = {}
    BY <1>0, <1>1, <1>5, <1>6, <2>2, Lengths DEF Handling
  <2>4. \A i \in DOMAIN wire : wire[i] \notin batch
    BY <1>0, <1>1, <1>5, <1>6, <2>2, Lengths DEF Handling
  <2>5. "channel" \in seen
    BY <1>0, <1>6 DEF Firing
  <2>6. NothingSent'
    BY <1>2, <2>1, <2>3, <2>4, <2>5 DEF NothingSent, OnWire
  <2>. QED  BY <1>2, <2>6 DEF Idle, StageIs
<1>7. CASE Firing(lo, hi) /\ c # lo
  <2>1. Handled(c) \in batch
    BY <1>0, <1>1, <1>5, <1>7, Lengths DEF Answering, Handled
  <2>2. "fire" \in seen
    BY <1>0, <1>7 DEF Firing
  <2>3. CutShort'
    BY <1>1, <1>2, <1>5, <1>7, <2>1, <2>2 DEF CutShort, Handling, Handled, From
  <2>. QED  BY <1>2, <2>3 DEF Idle, StageIs
<1>. QED  BY <1>4, <1>6, <1>7

-----------------------------------------------------------------------------
(* Reading the confirms. *)

LEMMA ReadConfirmStep ==
  ASSUME PublisherInv, ReadConfirm
  PROVE  PublisherInv'
<1>0. TypeOK /\ stage = "awaiting" /\ confirms # <<>>
  BY DEF PublisherInv, ReadConfirm
<1>. PICK lo \in Messages, hi \in Messages :
       /\ BatchIs(lo, hi)
       /\ Awaiting(lo, hi) \/ Draining(lo, hi) \/ Slipping(lo, hi) \/ AfterShutdown(lo, hi)
  BY <1>0, InStage
<1>. PICK c \in Messages : c = cursor
  <2>1. cursor \in batch /\ batch \subseteq Messages
    BY <1>0 DEF BatchIs, Awaiting, Draining, Slipping, AfterShutdown, TypeOK
  <2>. QED  BY <2>1
<1>1. lo \in Int /\ hi \in Int /\ c \in Int /\ lo <= c /\ c <= hi /\ batch = lo..hi
      /\ hi <= MaxMessages /\ MaxMessages \in Nat /\ hi >= 1
  BY NumbersAre DEF BatchIs, Awaiting, Draining, Slipping, AfterShutdown
<1>2. /\ confirms' \in Seq(BOOLEAN) /\ Len(confirms) > 0 /\ Len(confirms') = Len(confirms) - 1
      /\ DOMAIN confirms' = 1..Len(confirms) - 1
      /\ \A i \in 1..Len(confirms) - 1 : confirms'[i] = confirms[i + 1]
  BY <1>0, TailFacts DEF TypeOK, ReadConfirm
<1>3. /\ UNCHANGED <<batch, cached, streamOpen, wire, acks, connUp, ctxDone, accepted, seen>>
      /\ failed' = IF confirms[1] THEN failed ELSE failed \cup {c}
      /\ IF c = hi THEN stage' = "idle" /\ cursor' = hi ELSE stage' = "awaiting" /\ cursor' = c + 1
  <2>1. Head(confirms) = confirms[1]
    BY <1>0, TailFacts DEF TypeOK
  <2>2. Advance("awaiting")
    BY Zenon DEF ReadConfirm
  <2>3. IF c = hi THEN stage' = "idle" /\ cursor' = hi ELSE stage' = "awaiting" /\ cursor' = c + 1
    <3>1. cursor \in batch
      BY <1>1
    <3>. QED  BY <1>1, <2>2, <3>1, AdvanceIs
  <2>. QED  BY <2>1, <2>3 DEF ReadConfirm
<1>4. TypeOK' /\ BatchIs(lo, hi)' /\ ShutdownSeen'
  <2>1. ShutdownSeen'
    BY <1>0, <1>3, InStage DEF ShutdownSeen
  <2>. QED  BY <1>0, <1>1, <1>2, <1>3, <2>1 DEF TypeOK, BatchIs
<1>. SUFFICES StageIs(lo, hi)'
  BY <1>4 DEF PublisherInv, CallInv
<1>5. CASE Awaiting(lo, hi)
  <2>1. Handling(hi + 1) /\ Answering(c, hi + 1) /\ Judged(c) /\ failed \subseteq Before(batch, c)
    BY <1>5 DEF Awaiting
  <2>2. c < Handled(hi + 1) /\ Handled(hi + 1) \in Int
    BY <1>0, <1>1, <1>2, <2>1, Lengths DEF Answering, Handled
  <2>3. confirms[1] <=> c \in accepted
    BY <1>0, <1>1, <1>2, <2>1, Lengths DEF Answering
  <2>4. c \notin OnWire
    BY <1>0, <1>1, <2>1, <2>2, Lengths DEF Handling, OnWire
  <2>5. c \in failed' => "nack" \in seen
    BY <1>1, <1>3, <2>1, <2>2, <2>3 DEF Handling, Before
  <2>6. c \in accepted <=> c \notin failed'
    BY <1>1, <1>3, <2>1, <2>3 DEF Before
  <2>7. Judged(c + 1)' /\ failed' \subseteq Before(batch, c + 1)
    BY <1>1, <1>3, <2>1, <2>4, <2>5, <2>6 DEF Judged, Before, OnWire
  <2>8. CASE c = hi
    <3>1. Answers'
      BY <1>1, <1>3, <2>7, <2>8 DEF Judged, Answers, Before
    <3>2. Len(confirms) = 1 /\ Len(acks) = 0 /\ Len(wire) = 0
      BY <1>0, <1>1, <1>2, <2>1, <2>8, Lengths DEF Answering, Handled
    <3>3. wire' = <<>> /\ acks' = <<>> /\ confirms' = <<>>
      BY <1>0, <1>2, <1>3, <3>2, EmptySeq DEF TypeOK
    <3>. QED  BY <1>3, <2>8, <3>1, <3>3 DEF Idle, StageIs
  <2>9. CASE c # hi
    <3>1. Handling(hi + 1)'
      BY <1>3, <2>1 DEF Handling, Handled
    <3>2. Handled(hi + 1)' = Handled(hi + 1)
      BY <1>3 DEF Handled
    <3>3. Answering(c + 1, hi + 1)'
      <4>1. \A i \in 1..Len(confirms) - 1 : confirms[i + 1] <=> (c + 1) + i - 1 \in accepted
        <5>. TAKE i \in 1..Len(confirms) - 1
        <5>1. i + 1 \in DOMAIN confirms /\ c + (i + 1) - 1 = (c + 1) + i - 1
          BY <1>0, <1>1, Lengths
        <5>. QED  BY <2>1, <5>1 DEF Answering
      <4>2. \A i \in DOMAIN acks : acks[i] <=> (c + 1) + (Len(confirms) - 1) + i - 1 \in accepted
        <5>. TAKE i \in DOMAIN acks
        <5>1. c + Len(confirms) + i - 1 = (c + 1) + (Len(confirms) - 1) + i - 1
          BY <1>0, <1>1, Lengths
        <5>. QED  BY <2>1, <5>1 DEF Answering
      <4>3. c + Len(confirms) + Len(acks) = (c + 1) + Len(confirms') + Len(acks)
        BY <1>0, <1>1, <1>2, Lengths
      <4>. QED  BY <1>2, <1>3, <2>1, <3>2, <4>1, <4>2, <4>3 DEF Answering
    <3>. QED  BY <1>1, <1>3, <1>5, <2>7, <2>9, <3>1, <3>3 DEF Awaiting, StageIs
  <2>. QED  BY <2>8, <2>9
<1>6. CASE Draining(lo, hi)
  <2>. PICK m \in batch :
         /\ m < c /\ Judged(m) /\ Shifted(m, c - 1)
         /\ \A i \in DOMAIN confirms : confirms[i] => c + i - 2 \in accepted
    BY <1>0, <1>6 DEF Draining
  <2>1. confirms[1] => c - 1 \in accepted
    <3>1. 1 \in DOMAIN confirms
      BY <1>0, <1>2, Lengths
    <3>2. confirms[1] => c + 1 - 2 \in accepted
      BY <3>1
    <3>3. c + 1 - 2 = c - 1
      BY <1>1
    <3>. QED  BY <3>2, <3>3
  <2>2. Judged(m)'
    BY <1>1, <1>3 DEF Judged, Before, OnWire
  <2>3. Shifted(m, c)'
    BY <1>1, <1>3, <2>1 DEF Shifted
  <2>4. ~cached' /\ ~streamOpen'
    BY <1>3, <1>6 DEF Draining
  <2>5. CASE c = hi
    BY <1>3, <2>2, <2>3, <2>4, <2>5 DEF Idle, Interrupted, StageIs
  <2>6. CASE c # hi
    <3>1. \A i \in DOMAIN confirms' : confirms'[i] => (c + 1) + i - 2 \in accepted'
      <4>. TAKE i \in DOMAIN confirms'
      <4>1. i \in 1..Len(confirms) - 1 /\ i + 1 \in 1..Len(confirms) /\ Len(confirms) \in Nat
        BY <1>0, <1>2, Lengths
      <4>2. confirms'[i] = confirms[i + 1]
        BY <1>2, <4>1
      <4>3. confirms[i + 1] => c + (i + 1) - 2 \in accepted
        BY <1>0, <4>1, Lengths
      <4>4. c + (i + 1) - 2 = (c + 1) + i - 2
        BY <1>1, <4>1
      <4>. QED  BY <1>3, <4>2, <4>3, <4>4
    <3>. QED  BY <1>1, <1>3, <2>2, <2>3, <2>4, <2>6, <3>1 DEF Draining, StageIs
  <2>. QED  BY <2>5, <2>6
<1>7. CASE Slipping(lo, hi)
  <2>. PICK m \in batch : m < c /\ Judged(m) /\ Skipped(m, c - 1)
    BY <1>7 DEF Slipping
  <2>1. confirms[1] => AcceptedBefore(c)
    <3>1. 1 \in DOMAIN confirms /\ c + 1 - 1 = c
      BY <1>0, <1>1, <1>2, Lengths
    <3>2. confirms[1] => AcceptedBefore(c + 1 - 1)
      BY <1>7, <3>1 DEF Slipping
    <3>. QED  BY <3>1, <3>2
  <2>2. Judged(m)'
    BY <1>1, <1>3 DEF Judged, Before, OnWire
  <2>3. \A k : AcceptedBefore(k)' <=> AcceptedBefore(k)
    BY <1>3 DEF AcceptedBefore
  <2>4. Skipped(m, c)'
    BY <1>1, <1>3, <2>1, <2>3 DEF Skipped
  <2>5. CASE c = hi
    BY <1>3, <1>7, <2>2, <2>4, <2>5 DEF Idle, Interrupted, Slipping, StageIs
  <2>6. CASE c # hi
    <3>1. \A i \in DOMAIN confirms' : confirms'[i] => AcceptedBefore(c + 1 + i - 1)
      <4>. TAKE i \in DOMAIN confirms'
      <4>1. i \in Int /\ i + 1 \in DOMAIN confirms /\ confirms'[i] = confirms[i + 1]
        BY <1>0, <1>2, Lengths
      <4>2. c + (i + 1) - 1 = c + 1 + i - 1
        BY <1>1, <4>1
      <4>3. confirms[i + 1] => AcceptedBefore(c + (i + 1) - 1)
        BY <1>7, <4>1 DEF Slipping
      <4>. QED  BY <4>1, <4>2, <4>3
    <3>2. \A k \in Int : c + Len(confirms) + k - 1 = c + 1 + Len(confirms') + k - 1
      BY <1>0, <1>1, <1>2, Lengths
    <3>3. streamOpen =>
            \A i \in DOMAIN acks : acks[i] => AcceptedBefore(c + 1 + Len(confirms') + i - 1)
      <4>. SUFFICES ASSUME streamOpen, NEW i \in DOMAIN acks, acks[i]
                    PROVE  AcceptedBefore(c + 1 + Len(confirms') + i - 1)
        OBVIOUS
      <4>1. i \in Int
        BY <1>0, Lengths
      <4>2. AcceptedBefore(c + Len(confirms) + i - 1)
        BY <1>7 DEF Slipping
      <4>. QED  BY <3>2, <4>1, <4>2
    <3>4. streamOpen =>
            \A i \in DOMAIN wire :
              wire[i] \in batch /\ wire[i] < c + 1 + Len(confirms') + Len(acks) + i - 1
      <4>1. c + Len(confirms) + Len(acks) = c + 1 + Len(confirms') + Len(acks)
        BY <1>0, <1>1, <1>2, Lengths
      <4>. QED  BY <1>7, <4>1 DEF Slipping
    <3>. QED  BY <1>1, <1>3, <1>7, <2>2, <2>3, <2>4, <2>6, <3>1, <3>3, <3>4 DEF Slipping, StageIs
  <2>. QED  BY <2>5, <2>6
<1>8. CASE AfterShutdown(lo, hi)
  BY <1>1, <1>3, <1>8 DEF AfterShutdown, StageIs
<1>. QED  BY <1>5, <1>6, <1>7, <1>8

LEMMA ReadClosedStep ==
  ASSUME PublisherInv, ReadClosed
  PROVE  PublisherInv'
<1>0. TypeOK /\ stage = "awaiting" /\ confirms = <<>> /\ ~streamOpen
  BY DEF PublisherInv, ReadClosed
<1>. PICK lo \in Messages, hi \in Messages :
       /\ BatchIs(lo, hi)
       /\ Awaiting(lo, hi) \/ Draining(lo, hi) \/ Slipping(lo, hi) \/ AfterShutdown(lo, hi)
  BY <1>0, InStage
<1>. PICK c \in Messages : c = cursor
  <2>1. cursor \in batch /\ batch \subseteq Messages
    BY <1>0 DEF BatchIs, Awaiting, Draining, Slipping, AfterShutdown, TypeOK
  <2>. QED  BY <2>1
<1>1. lo \in Int /\ hi \in Int /\ c \in Int /\ lo <= c /\ c <= hi /\ batch = lo..hi
      /\ hi <= MaxMessages /\ MaxMessages \in Nat /\ hi >= 1
  BY NumbersAre DEF BatchIs, Awaiting, Draining, Slipping, AfterShutdown
<1>2. /\ UNCHANGED <<batch, streamOpen, wire, acks, confirms, connUp, ctxDone, accepted, seen>>
      /\ failed' = failed \cup {c} /\ ~cached' /\ cached' \in BOOLEAN
      /\ IF c = hi THEN stage' = "idle" /\ cursor' = hi ELSE stage' = "awaiting" /\ cursor' = c + 1
  <2>1. Advance("awaiting")
    BY Zenon DEF ReadClosed
  <2>2. cursor \in batch
    BY <1>1
  <2>3. IF c = hi THEN stage' = "idle" /\ cursor' = hi ELSE stage' = "awaiting" /\ cursor' = c + 1
    BY <1>1, <2>1, <2>2, AdvanceIs
  <2>. QED  BY <2>3 DEF ReadClosed, chanVars
<1>3. TypeOK' /\ BatchIs(lo, hi)' /\ ShutdownSeen'
  <2>1. ShutdownSeen'
    BY <1>0, <1>2, InStage DEF ShutdownSeen
  <2>. QED  BY <1>0, <1>1, <1>2, <2>1 DEF TypeOK, BatchIs
<1>. SUFFICES StageIs(lo, hi)'
  BY <1>3 DEF PublisherInv, CallInv
<1>4. \A m \in batch : m <= c /\ Judged(m) => Judged(m)'
  BY <1>1, <1>2 DEF Judged, Before, OnWire
<1>5. CASE Awaiting(lo, hi) \/ Draining(lo, hi)
  <2>1. \E m \in batch : m <= c /\ Judged(m)' /\ (GaveUp(m, c)' \/ Shifted(m, c)')
    <3>1. CASE Awaiting(lo, hi)
      <4>1. Judged(c) /\ "timeout" \in seen
        BY <1>0, <3>1 DEF Awaiting
      <4>2. GaveUp(c, c)'
        BY <1>1, <1>2, <4>1 DEF GaveUp
      <4>. QED  BY <1>1, <1>4, <4>1, <4>2
    <3>2. CASE Draining(lo, hi)
      <4>. PICK m \in batch : m < c /\ Judged(m) /\ (GaveUp(m, c - 1) \/ Shifted(m, c - 1))
        BY <3>2 DEF Draining
      <4>1. GaveUp(m, c)' \/ Shifted(m, c)'
        BY <1>1, <1>2 DEF GaveUp, Shifted
      <4>. QED  BY <1>1, <1>4, <4>1
    <3>. QED  BY <1>5, <3>1, <3>2
  <2>. PICK m \in batch : m <= c /\ Judged(m)' /\ (GaveUp(m, c)' \/ Shifted(m, c)')
    BY <2>1
  <2>2. CASE c = hi
    BY <1>2, <2>1, <2>2 DEF Idle, Interrupted, StageIs
  <2>3. CASE c # hi
    <3>1. m < c + 1 /\ (c + 1) - 1 = c /\ c + 1 \in lo..hi
      BY <1>1, <2>3
    <3>. QED  BY <1>0, <1>2, <2>3, <3>1 DEF Draining, StageIs
  <2>. QED  BY <2>2, <2>3
<1>6. CASE Slipping(lo, hi)
  <2>. PICK m \in batch : m < c /\ Judged(m) /\ Skipped(m, c - 1)
    BY <1>6 DEF Slipping
  <2>1. Skipped(m, c)'
    BY <1>1, <1>2 DEF Skipped, AcceptedBefore
  <2>2. CASE c = hi
    BY <1>1, <1>2, <1>4, <1>6, <2>1, <2>2 DEF Idle, Interrupted, Slipping, StageIs
  <2>3. CASE c # hi
    <3>1. m < c + 1 /\ (c + 1) - 1 = c /\ c + 1 \in lo..hi
      BY <1>1, <2>3
    <3>. QED  BY <1>0, <1>1, <1>2, <1>4, <1>6, <2>1, <2>3, <3>1 DEF Slipping, StageIs
  <2>. QED  BY <2>2, <2>3
<1>7. CASE AfterShutdown(lo, hi)
  BY <1>1, <1>2, <1>7 DEF AfterShutdown, StageIs
<1>. QED  BY <1>5, <1>6, <1>7

\* The context ends on the message awaited: what is on its way stays in order, but
\* from now on it is counted for later messages.
LEMMA CtxDoneStep ==
  ASSUME PublisherInv, CtxDone
  PROVE  PublisherInv'
<1>0. TypeOK /\ stage = "awaiting" /\ ctxDone /\ ShutdownSeen
  BY InStage DEF PublisherInv, CtxDone
<1>. PICK lo \in Messages, hi \in Messages :
       /\ BatchIs(lo, hi)
       /\ Awaiting(lo, hi) \/ Draining(lo, hi) \/ Slipping(lo, hi) \/ AfterShutdown(lo, hi)
  BY <1>0, InStage
<1>. PICK c \in Messages : c = cursor
  <2>1. cursor \in batch /\ batch \subseteq Messages
    BY <1>0 DEF BatchIs, Awaiting, Draining, Slipping, AfterShutdown, TypeOK
  <2>. QED  BY <2>1
<1>1. lo \in Int /\ hi \in Int /\ c \in Int /\ lo <= c /\ c <= hi /\ batch = lo..hi
      /\ hi <= MaxMessages /\ MaxMessages \in Nat /\ hi >= 1
  BY NumbersAre DEF BatchIs, Awaiting, Draining, Slipping, AfterShutdown
<1>2. /\ UNCHANGED <<batch, cached, streamOpen, wire, acks, confirms, connUp, ctxDone, accepted, seen>>
      /\ failed' = failed \cup {c}
      /\ IF c = hi THEN stage' = "idle" /\ cursor' = hi ELSE stage' = "awaiting" /\ cursor' = c + 1
  <2>1. Advance("awaiting")
    BY Zenon DEF CtxDone
  <2>2. cursor \in batch
    BY <1>1
  <2>3. IF c = hi THEN stage' = "idle" /\ cursor' = hi ELSE stage' = "awaiting" /\ cursor' = c + 1
    BY <1>1, <2>1, <2>2, AdvanceIs
  <2>. QED  BY <2>3 DEF CtxDone, chanVars
<1>3. TypeOK' /\ BatchIs(lo, hi)' /\ ShutdownSeen'
  BY <1>0, <1>1, <1>2 DEF TypeOK, BatchIs, ShutdownSeen
<1>. SUFFICES StageIs(lo, hi)'
  BY <1>3 DEF PublisherInv, CallInv
<1>4. CASE "done" \in seen
  BY <1>0, <1>1, <1>2, <1>4 DEF AfterShutdown, StageIs
<1>. SUFFICES ASSUME "done" \notin seen PROVE StageIs(lo, hi)'
  BY <1>4
<1>5. "cancel" \in seen /\ ~AfterShutdown(lo, hi)
  BY <1>0 DEF ShutdownSeen, ShutdownFaults, AfterShutdown
<1>6. \A m \in batch : m <= c /\ Judged(m) => Judged(m)'
  BY <1>1, <1>2 DEF Judged, Before, OnWire
<1>7. /\ Len(wire) \in Nat /\ DOMAIN wire = 1..Len(wire)
      /\ Len(acks) \in Nat /\ DOMAIN acks = 1..Len(acks)
      /\ Len(confirms) \in Nat /\ DOMAIN confirms = 1..Len(confirms)
  BY <1>0, Lengths
<1>8. \E m \in batch : m <= c /\ Judged(m)' /\ Skipped(m, c)'
  <2>1. CASE Awaiting(lo, hi)
    <3>1. Judged(c) /\ failed \subseteq Before(batch, c)
      BY <2>1 DEF Awaiting
    <3>2. Skipped(c, c)'
      BY <1>1, <1>2, <1>5 DEF Skipped
    <3>. QED  BY <1>1, <1>6, <3>1, <3>2
  <2>2. CASE Draining(lo, hi)
    <3>. PICK m \in batch : m < c /\ Judged(m) /\ (GaveUp(m, c - 1) \/ Shifted(m, c - 1))
      BY <2>2 DEF Draining
    <3>1. m \in failed
      BY <1>1 DEF GaveUp, Shifted
    <3>2. ASSUME NEW q \in batch, m < q, q <= c - 1, q \notin failed
          PROVE  AcceptedBefore(q)
      <4>1. q - 1 \in accepted /\ q - 1 \in batch /\ q - 1 < q
        BY <1>1, <3>2 DEF GaveUp, Shifted
      <4>. QED  BY <4>1 DEF AcceptedBefore
    <3>3. Skipped(m, c)'
      BY <1>1, <1>2, <1>5, <3>1, <3>2 DEF Skipped, AcceptedBefore
    <3>. QED  BY <1>1, <1>6, <3>3
  <2>3. CASE Slipping(lo, hi)
    <3>. PICK m \in batch : m < c /\ Judged(m) /\ Skipped(m, c - 1)
      BY <2>3 DEF Slipping
    <3>1. Skipped(m, c)'
      BY <1>1, <1>2 DEF Skipped, AcceptedBefore
    <3>. QED  BY <1>1, <1>6, <3>1
  <2>. QED  BY <1>5, <2>1, <2>2, <2>3
<1>9. \A k, l \in Int : AcceptedBefore(k) /\ k <= l => AcceptedBefore(l)
  BY <1>1 DEF AcceptedBefore
<1>10. /\ \A i \in DOMAIN confirms : confirms[i] => AcceptedBefore(c + 1 + i - 1)
       /\ streamOpen =>
            /\ \A i \in DOMAIN acks : acks[i] => AcceptedBefore(c + 1 + Len(confirms) + i - 1)
            /\ \A i \in DOMAIN wire :
                 wire[i] \in batch /\ wire[i] < c + 1 + Len(confirms) + Len(acks) + i - 1
  <2>1. CASE Awaiting(lo, hi)
    <3>0. Handled(hi + 1) \in Int
      <4>1. hi + 1 - Len(wire) \in Int
        BY <1>1, <1>7
      <4>. QED  BY <1>1, <1>7, <4>1 DEF Handled
    <3>. PICK h \in Int : h = Handled(hi + 1)
      BY <3>0
    <3>1. /\ c + Len(confirms) + Len(acks) <= h /\ h = hi + 1 - Len(wire)
          /\ streamOpen => c + Len(confirms) + Len(acks) = h
          /\ \A i \in DOMAIN confirms : confirms[i] => c + i - 1 \in accepted
          /\ \A i \in DOMAIN acks : acks[i] => c + Len(confirms) + i - 1 \in accepted
          /\ \A i \in DOMAIN wire : wire[i] = h + i - 1
      BY <2>1 DEF Awaiting, Answering, Handling, Handled
    <3>2. ASSUME NEW k \in Int, c <= k, k <= hi, k \in accepted
          PROVE  AcceptedBefore(k + 1)
      BY <1>1, <3>2 DEF AcceptedBefore
    <3>3. ASSUME NEW i \in DOMAIN confirms, confirms[i]
          PROVE  AcceptedBefore(c + 1 + i - 1)
      <4>. PICK k \in Int : k = c + i - 1
        BY <1>1, <1>7
      <4>1. c <= k /\ k <= hi /\ k + 1 = c + 1 + i - 1
        BY <1>1, <1>7, <3>1, SMTT(20)
      <4>2. k \in accepted
        BY <3>1, <3>3
      <4>. QED  BY <3>2, <4>1, <4>2
    <3>4. ASSUME NEW i \in DOMAIN acks, acks[i]
          PROVE  AcceptedBefore(c + 1 + Len(confirms) + i - 1)
      <4>. PICK k \in Int : k = c + Len(confirms) + i - 1
        BY <1>1, <1>7
      <4>1. c <= k /\ k <= hi /\ k + 1 = c + 1 + Len(confirms) + i - 1
        <5>1. i \in Int /\ 1 <= i /\ i <= Len(acks) /\ Len(wire) >= 0
          BY <1>7
        <5>2. c + Len(confirms) + Len(acks) <= hi + 1
          BY <1>1, <1>7, <3>1
        <5>. QED  BY <1>1, <1>7, <5>1, <5>2, SMTT(20)
      <4>2. k \in accepted
        BY <3>1, <3>4
      <4>. QED  BY <3>2, <4>1, <4>2
    <3>5. ASSUME streamOpen, NEW i \in DOMAIN wire
          PROVE  wire[i] \in batch /\ wire[i] < c + 1 + Len(confirms) + Len(acks) + i - 1
      <4>1. wire[i] = h + i - 1 /\ h = c + Len(confirms) + Len(acks) /\ i \in 1..Len(wire)
        BY <1>7, <3>1, <3>5
      <4>2. i \in Int /\ 1 <= i /\ i <= Len(wire)
        BY <1>7, <4>1
      <4>3. h = hi + 1 - Len(wire) /\ c <= h
        <5>1. h = hi + 1 - Len(wire)
          BY <3>1
        <5>2. h = c + Len(confirms) + Len(acks) /\ Len(confirms) \in Nat /\ Len(acks) \in Nat
          BY <1>7, <4>1
        <5>3. c <= h
          BY <1>1, <5>2
        <5>. QED  BY <5>1, <5>3
      <4>4. h + i - 1 \in batch
        <5>1. lo <= h + i - 1
          BY <1>1, <4>2, <4>3
        <5>2. h + i - 1 <= hi
          BY <1>1, <1>7, <4>2, <4>3
        <5>. QED  BY <1>1, <4>2, <5>1, <5>2
      <4>5. h + i - 1 < c + 1 + Len(confirms) + Len(acks) + i - 1
        BY <1>1, <1>7, <4>1, <4>2
      <4>. QED  BY <4>1, <4>4, <4>5
    <3>. QED  BY <3>3, <3>4, <3>5
  <2>2. CASE Draining(lo, hi)
    <3>1. ~streamOpen
      BY <2>2 DEF Draining
    <3>2. ASSUME NEW i \in DOMAIN confirms, confirms[i]
          PROVE  AcceptedBefore(c + 1 + i - 1)
      <4>. PICK m \in batch :
             /\ m < c
             /\ \/ confirms = <<>>
                \/ \A j \in DOMAIN confirms : confirms[j] => c + j - 2 \in accepted
        BY <2>2 DEF Draining
      <4>1. confirms # <<>>
        BY <1>7, <3>2
      <4>. PICK k \in Int : k = c + i - 2
        BY <1>1, <1>7
      <4>2. k \in accepted /\ k <= hi /\ m <= k /\ k < c + 1 + i - 1
        BY <1>1, <1>7, <3>2, <4>1 DEF BatchIs
      <4>3. k \in batch
        BY <1>1, <4>2
      <4>. QED  BY <4>2, <4>3 DEF AcceptedBefore
    <3>. QED  BY <3>1, <3>2
  <2>3. CASE Slipping(lo, hi)
    <3>1. \A i \in DOMAIN confirms : confirms[i] => AcceptedBefore(c + 1 + i - 1)
      <4>1. \A i \in DOMAIN confirms : c + i - 1 \in Int /\ c + 1 + i - 1 \in Int /\ c + i - 1 <= c + 1 + i - 1
        BY <1>1, <1>7
      <4>. QED  BY <1>9, <2>3, <4>1 DEF Slipping
    <3>2. ASSUME streamOpen, NEW i \in DOMAIN acks, acks[i]
          PROVE  AcceptedBefore(c + 1 + Len(confirms) + i - 1)
      <4>. PICK k \in Int, l \in Int : k = c + Len(confirms) + i - 1 /\ l = c + 1 + Len(confirms) + i - 1
        BY <1>1, <1>7
      <4>1. AcceptedBefore(k) /\ k <= l
        BY <1>1, <1>7, <2>3, <3>2, SMTT(20) DEF Slipping
      <4>. QED  BY <1>9, <4>1
    <3>3. ASSUME streamOpen, NEW i \in DOMAIN wire
          PROVE  wire[i] \in batch /\ wire[i] < c + 1 + Len(confirms) + Len(acks) + i - 1
      BY <1>1, <1>7, <2>3, <3>3 DEF Slipping
    <3>. QED  BY <3>1, <3>2, <3>3
  <2>. QED  BY <1>5, <2>1, <2>2, <2>3
<1>. PICK m \in batch : m <= c /\ Judged(m)' /\ Skipped(m, c)'
  BY <1>8
<1>11. CASE c = hi
  BY <1>0, <1>2, <1>11 DEF Idle, Interrupted, StageIs
<1>12. CASE c # hi
  <2>1. m < c + 1 /\ (c + 1) - 1 = c /\ c + 1 \in lo..hi
    BY <1>1, <1>12
  <2>2. \A k : AcceptedBefore(k)' <=> AcceptedBefore(k)
    BY <1>2 DEF AcceptedBefore
  <2>. QED  BY <1>0, <1>2, <1>10, <1>12, <2>1, <2>2 DEF Slipping, StageIs
<1>. QED  BY <1>11, <1>12

LEMMA TimeoutStep ==
  ASSUME PublisherInv, Timeout
  PROVE  PublisherInv'
<1>0. TypeOK /\ stage = "awaiting" /\ streamOpen /\ ~ctxDone
  BY DEF PublisherInv, Timeout
<1>. PICK lo \in Messages, hi \in Messages : BatchIs(lo, hi) /\ Awaiting(lo, hi)
  BY <1>0, InStage DEF Draining, Slipping, AfterShutdown
<1>1. lo \in Int /\ hi \in Int /\ cursor \in Int /\ lo <= cursor /\ cursor <= hi /\ batch = lo..hi
  BY NumbersAre DEF BatchIs, Awaiting
<1>2. /\ UNCHANGED <<batch, cursor, streamOpen, wire, acks, confirms, connUp, ctxDone, accepted>>
      /\ failed' = failed \cup {cursor} /\ ~cached' /\ cached' \in BOOLEAN
      /\ stage' = "closing"
      /\ seen' = seen \cup {IF confirms = <<>> THEN "timeout" ELSE "late"}
  BY DEF Timeout, chanVars
<1>3. TypeOK' /\ BatchIs(lo, hi)' /\ ShutdownSeen'
  BY <1>0, <1>1, <1>2 DEF TypeOK, BatchIs, ShutdownSeen, PublishFaults
<1>4. Judged(cursor)'
  BY <1>1, <1>2 DEF Awaiting, Judged, Before, OnWire
<1>5. Handling(hi + 1)' /\ Answering(cursor, hi + 1)'
  BY <1>2 DEF Awaiting, Handling, Answering, Handled
<1>6. Closing(lo, hi)'
  BY <1>1, <1>2, <1>4, <1>5 DEF Closing
<1>. QED  BY <1>3, <1>6 DEF PublisherInv, CallInv, StageIs

LEMMA CloseCompletesStep ==
  ASSUME PublisherInv, CloseCompletes
  PROVE  PublisherInv'
<1>0. TypeOK /\ stage = "closing"
  BY DEF PublisherInv, CloseCompletes
<1>. PICK lo \in Messages, hi \in Messages : BatchIs(lo, hi) /\ Closing(lo, hi)
  BY <1>0, InStage
<1>. PICK c \in Messages : c = cursor
  <2>1. cursor \in batch /\ batch \subseteq Messages
    BY <1>0 DEF BatchIs, Closing, TypeOK
  <2>. QED  BY <2>1
<1>1. lo \in Int /\ hi \in Int /\ c \in Int /\ lo <= c /\ c <= hi /\ batch = lo..hi
      /\ hi <= MaxMessages /\ MaxMessages \in Nat /\ hi >= 1
  BY NumbersAre DEF BatchIs, Closing
<1>2. /\ UNCHANGED <<batch, failed, cached, wire, confirms, connUp, ctxDone, accepted, seen>>
      /\ ~streamOpen' /\ streamOpen' \in BOOLEAN /\ acks' = <<>>
      /\ IF c = hi THEN stage' = "idle" /\ cursor' = hi ELSE stage' = "awaiting" /\ cursor' = c + 1
  <2>1. Advance("awaiting")
    BY Zenon DEF CloseCompletes
  <2>2. cursor \in batch
    BY <1>1
  <2>3. IF c = hi THEN stage' = "idle" /\ cursor' = hi ELSE stage' = "awaiting" /\ cursor' = c + 1
    BY <1>1, <2>1, <2>2, AdvanceIs
  <2>. QED  BY <2>3 DEF CloseCompletes
<1>3. TypeOK' /\ BatchIs(lo, hi)' /\ ShutdownSeen'
  <2>1. ShutdownSeen'
    BY <1>0, <1>2, InStage DEF ShutdownSeen
  <2>. QED  BY <1>0, <1>1, <1>2, <2>1 DEF TypeOK, BatchIs
<1>. SUFFICES StageIs(lo, hi)'
  BY <1>3 DEF PublisherInv, CallInv
<1>4. Judged(c)' /\ ~cached'
  BY <1>2 DEF Closing, Judged, OnWire
<1>5. IF confirms = <<>> THEN GaveUp(c, c)' ELSE Shifted(c, c)'
  BY <1>1, <1>2 DEF Closing, GaveUp, Shifted
<1>6. \A i \in DOMAIN confirms : confirms[i] => (c + 1) + i - 2 \in accepted
  <2>. TAKE i \in DOMAIN confirms
  <2>1. c + i - 1 = (c + 1) + i - 2
    BY <1>0, <1>1, Lengths
  <2>. QED  BY <2>1 DEF Closing, Answering
<1>7. CASE c = hi
  BY <1>1, <1>2, <1>4, <1>5, <1>7 DEF Idle, Interrupted, StageIs
<1>8. CASE c # hi
  <2>1. c < c + 1 /\ (c + 1) - 1 = c /\ c + 1 \in lo..hi
    BY <1>1, <1>8
  <2>. QED  BY <1>1, <1>2, <1>4, <1>5, <1>6, <1>8, <2>1 DEF Draining, StageIs
<1>. QED  BY <1>7, <1>8

-----------------------------------------------------------------------------
(* Broker and network. *)

\* What the broker's handling of a message does to the parts of the invariant.
LEMMA HandledOne ==
  ASSUME TypeOK, NEW ok \in BOOLEAN, BrokerHandles(ok)
  PROVE  /\ wire # <<>> /\ wire[1] \in Messages /\ Len(wire) \in Nat /\ Len(wire) > 0
         /\ wire' \in Seq(Messages) /\ Len(wire') = Len(wire) - 1 /\ DOMAIN wire' = 1..Len(wire) - 1
         /\ \A i \in 1..Len(wire) - 1 : wire'[i] = wire[i + 1]
         /\ OnWire' \subseteq OnWire /\ wire[1] \in OnWire
         /\ accepted' = IF ok THEN accepted \cup {wire[1]} ELSE accepted
         /\ seen' = IF ok THEN seen ELSE seen \cup {"nack"}
         /\ acks' = IF streamOpen THEN Append(acks, ok) ELSE acks
         /\ UNCHANGED <<stage, batch, cursor, failed, cached, streamOpen, confirms, connUp, ctxDone>>
<1>1. wire # <<>> /\ wire \in Seq(Messages)
  BY DEF BrokerHandles, TypeOK
<1>2. /\ Tail(wire) \in Seq(Messages) /\ Len(wire) > 0 /\ Len(Tail(wire)) = Len(wire) - 1
      /\ \A i \in 1..Len(wire) - 1 : Tail(wire)[i] = wire[i + 1]
      /\ Head(wire) = wire[1] /\ Head(wire) \in Messages /\ DOMAIN Tail(wire) = 1..Len(wire) - 1
  BY <1>1, TailFacts
<1>3. wire' = Tail(wire)
  BY DEF BrokerHandles
<1>4. Len(wire) \in Nat /\ DOMAIN wire = 1..Len(wire)
  BY <1>1
<1>5. OnWire' \subseteq OnWire /\ wire[1] \in OnWire
  BY <1>2, <1>3, <1>4 DEF OnWire
<1>6. /\ accepted' = IF ok THEN accepted \cup {wire[1]} ELSE accepted
      /\ seen' = IF ok THEN seen ELSE seen \cup {"nack"}
      /\ acks' = IF streamOpen THEN Append(acks, ok) ELSE acks
      /\ UNCHANGED <<stage, batch, cursor, failed, cached, streamOpen, confirms, connUp, ctxDone>>
  BY <1>2 DEF BrokerHandles, callVars
<1>. QED  BY <1>1, <1>2, <1>3, <1>4, <1>5, <1>6

LEMMA HandledType ==
  ASSUME TypeOK, NEW ok \in BOOLEAN, BrokerHandles(ok)
  PROVE  TypeOK'
<1>1. wire' \in Seq(Messages) /\ accepted' \subseteq Messages /\ seen' \subseteq PublishFaults
      /\ UNCHANGED <<stage, batch, cursor, failed, cached, streamOpen, confirms, connUp, ctxDone>>
  BY HandledOne DEF TypeOK, PublishFaults
<1>2. acks' \in Seq(BOOLEAN)
  <2>1. Append(acks, ok) \in Seq(BOOLEAN)
    BY AppendFacts DEF TypeOK
  <2>. QED  BY <2>1, HandledOne DEF TypeOK
<1>. QED  BY <1>1, <1>2 DEF TypeOK

LEMMA HandledHandling ==
  ASSUME TypeOK, NEW ok \in BOOLEAN, BrokerHandles(ok), NEW f \in Int, Handling(f), batch \subseteq Int
  PROVE  /\ Handling(f)'
         /\ wire[1] = Handled(f) /\ Handled(f)' = Handled(f) + 1 /\ Handled(f)' <= f
         /\ Handled(f) \in Int
<1>1. /\ Len(wire) \in Nat /\ Len(wire) > 0 /\ Len(wire') = Len(wire) - 1
      /\ DOMAIN wire' = 1..Len(wire) - 1 /\ DOMAIN wire = 1..Len(wire)
      /\ \A i \in 1..Len(wire) - 1 : wire'[i] = wire[i + 1]
  BY HandledOne, Lengths
<1>2. /\ Handled(f) \in Int /\ Handled(f)' = Handled(f) + 1 /\ Handled(f)' <= f
      /\ Handled(f)' \in Int
  BY <1>1 DEF Handled
<1>3. wire[1] = Handled(f)
  BY <1>1, <1>2 DEF Handling
<1>4. \A i \in DOMAIN wire' : wire'[i] = Handled(f)' + i - 1
  <2>. TAKE i \in DOMAIN wire'
  <2>1. wire'[i] = wire[i + 1] /\ i + 1 \in DOMAIN wire /\ i \in Int
    BY <1>1
  <2>. QED  BY <1>2, <2>1 DEF Handling
<1>5. ASSUME NEW q \in batch
      PROVE  IF q < Handled(f)' THEN q \in accepted' \/ "nack" \in seen' ELSE q \notin accepted'
  <2>1. /\ accepted' = IF ok THEN accepted \cup {Handled(f)} ELSE accepted
        /\ seen' = IF ok THEN seen ELSE seen \cup {"nack"}
    BY <1>3, HandledOne
  <2>2. IF q < Handled(f) THEN q \in accepted \/ "nack" \in seen ELSE q \notin accepted
    BY DEF Handling
  <2>3. q < Handled(f)' <=> q < Handled(f) \/ q = Handled(f)
    BY <1>2
  <2>. HIDE DEF Handled
  <2>. QED  BY <1>2, <2>1, <2>2, <2>3
<1>6. batch' = batch
  BY HandledOne
<1>. QED  BY <1>2, <1>3, <1>4, <1>5, <1>6 DEF Handling

LEMMA HandledAnswering ==
  ASSUME TypeOK, NEW ok \in BOOLEAN, BrokerHandles(ok), NEW r \in Int, NEW f \in Int,
         Handling(f), Answering(r, f), Handled(f) \in batch, batch \subseteq Int
  PROVE  Answering(r, f)'
<1>. PICK h \in Int : h = Handled(f)
  OBVIOUS
<1>1. /\ wire[1] = h /\ Handled(f)' = h + 1
      /\ accepted' = IF ok THEN accepted \cup {h} ELSE accepted
      /\ acks' = IF streamOpen THEN Append(acks, ok) ELSE acks
      /\ confirms' = confirms /\ streamOpen' = streamOpen
  BY HandledHandling, HandledOne
<1>2. h \notin accepted
  BY DEF Handling
<1>3. /\ Len(acks) \in Nat /\ Len(confirms) \in Nat
      /\ DOMAIN acks = 1..Len(acks) /\ DOMAIN confirms = 1..Len(confirms)
  BY Lengths
<1>4. r + Len(confirms) + Len(acks) <= h
  BY DEF Answering
<1>5. \A i \in DOMAIN confirms' : confirms'[i] <=> r + i - 1 \in accepted'
  <2>. TAKE i \in DOMAIN confirms'
  <2>1. i \in DOMAIN confirms /\ confirms'[i] = confirms[i]
    BY <1>1
  <2>2. r + i - 1 < h /\ r + i - 1 \in Int
    BY <1>3, <1>4, <2>1
  <2>3. r + i - 1 \in accepted <=> r + i - 1 \in accepted'
    BY <1>1, <2>2
  <2>. QED  BY <2>1, <2>3 DEF Answering
<1>6. CASE ~streamOpen
  <2>1. acks = <<>> /\ acks' = <<>>
    BY <1>1, <1>6 DEF Answering
  <2>2. DOMAIN acks' = {} /\ Len(acks') = 0 /\ Len(acks) = 0
    BY <2>1
  <2>3. r + Len(confirms') + Len(acks') <= h + 1
    BY <1>1, <1>3, <1>4, <2>2
  <2>. QED  BY <1>1, <1>5, <1>6, <2>1, <2>2, <2>3 DEF Answering
<1>7. CASE streamOpen
  <2>1. r + Len(confirms) + Len(acks) = h
    BY <1>7 DEF Answering
  <2>2. /\ Len(acks') = Len(acks) + 1 /\ acks'[Len(acks) + 1] = ok
        /\ \A i \in 1..Len(acks) : acks'[i] = acks[i]
        /\ DOMAIN acks' = 1..Len(acks) + 1
    <3>1. acks \in Seq(BOOLEAN)
      BY DEF TypeOK
    <3>. QED  BY <1>1, <1>7, <3>1, AppendFacts
  <2>3. r + Len(confirms') + Len(acks') = h + 1
    <3>1. Len(confirms') = Len(confirms) /\ Len(acks') = Len(acks) + 1
      BY <1>1, <2>2
    <3>. QED  BY <1>3, <2>1, <3>1
  <2>4. \A i \in DOMAIN acks' : acks'[i] <=> r + Len(confirms') + i - 1 \in accepted'
    <3>. TAKE i \in DOMAIN acks'
    <3>1. CASE i = Len(acks) + 1
      <4>1. r + Len(confirms') + i - 1 = h
        BY <1>1, <1>3, <2>1, <3>1
      <4>2. ok <=> h \in accepted'
        BY <1>1, <1>2
      <4>3. acks'[i] = ok
        BY <2>2, <3>1
      <4>. QED  BY <4>1, <4>2, <4>3
    <3>2. CASE i \in 1..Len(acks)
      <4>1. i \in DOMAIN acks /\ acks'[i] = acks[i] /\ i \in Int
        BY <1>3, <2>2, <3>2
      <4>2. r + Len(confirms) + i - 1 < h /\ r + Len(confirms) + i - 1 \in Int
        BY <1>3, <2>1, <3>2
      <4>3. r + Len(confirms) + i - 1 \in accepted <=> r + Len(confirms) + i - 1 \in accepted'
        BY <1>1, <4>2
      <4>. QED  BY <1>1, <4>1, <4>3 DEF Answering
    <3>. QED  BY <1>3, <2>2, <3>1, <3>2
  <2>. QED  BY <1>1, <1>5, <1>7, <2>3, <2>4 DEF Answering
<1>. QED  BY <1>6, <1>7

\* A message with a verdict is on the wire no more.
LEMMA HandledJudged ==
  ASSUME TypeOK, NEW ok \in BOOLEAN, BrokerHandles(ok), NEW m, Judged(m)
  PROVE  Judged(m)'
<1>1. /\ OnWire' \subseteq OnWire /\ wire[1] \in OnWire /\ seen \subseteq seen'
      /\ accepted \subseteq accepted' /\ accepted' \subseteq accepted \cup {wire[1]}
      /\ batch' = batch /\ failed' = failed
  BY HandledOne
<1>. QED  BY <1>1 DEF Judged, Before

LEMMA BrokerStep ==
  ASSUME PublisherInv, NEW ok \in BOOLEAN, BrokerHandles(ok)
  PROVE  PublisherInv'
<1>0. TypeOK /\ TypeOK'
  BY HandledType DEF PublisherInv
<1>1. /\ wire # <<>> /\ Len(wire) \in Nat /\ Len(wire) > 0 /\ DOMAIN wire = 1..Len(wire)
      /\ DOMAIN wire' = 1..Len(wire) - 1 /\ \A i \in 1..Len(wire) - 1 : wire'[i] = wire[i + 1]
      /\ OnWire' \subseteq OnWire /\ wire[1] \in OnWire /\ seen \subseteq seen'
      /\ accepted \subseteq accepted' /\ accepted' \subseteq accepted \cup {wire[1]}
      /\ UNCHANGED <<stage, batch, cursor, failed, cached, streamOpen, confirms, connUp, ctxDone>>
  BY <1>0, HandledOne, Lengths
<1>. PICK lo \in Messages, hi \in Messages : BatchIs(lo, hi) /\ StageIs(lo, hi) /\ ShutdownSeen
  BY <1>1 DEF PublisherInv, Fresh, CallInv
<1>2. lo \in Int /\ hi \in Int /\ lo <= hi /\ batch = lo..hi /\ batch \subseteq Int
  BY NumbersAre DEF BatchIs
<1>3. BatchIs(lo, hi)' /\ ShutdownSeen'
  <2>1. wire[1] <= hi
    BY <1>1 DEF BatchIs
  <2>2. \A i \in DOMAIN wire' : wire'[i] <= hi
    BY <1>1 DEF BatchIs
  <2>3. ShutdownSeen'
    BY <1>1 DEF ShutdownSeen
  <2>. QED  BY <1>1, <2>1, <2>2, <2>3 DEF BatchIs
<1>. SUFFICES StageIs(lo, hi)'
  BY <1>0, <1>3 DEF PublisherInv, CallInv
<1>4. CASE Firing(lo, hi)
  <2>. PICK c \in Int : c = cursor /\ lo <= c /\ c <= hi
    BY <1>2, <1>4 DEF Firing
  <2>1. Handling(c) /\ Answering(lo, c)
    BY <1>4 DEF Firing
  <2>2. Handled(c) \in batch
    BY <1>0, <1>1, <1>2, <2>1, Lengths DEF Answering, Handled
  <2>3. Handling(c)' /\ Answering(lo, c)'
    BY <1>0, <1>2, <2>1, <2>2, HandledHandling, HandledAnswering
  <2>. QED  BY <1>1, <1>4, <2>3 DEF Firing, StageIs
<1>5. ASSUME NEW c \in Int, c = cursor, lo <= c, c <= hi, Handling(hi + 1), Answering(c, hi + 1), Judged(c)
      PROVE  Handling(hi + 1)' /\ Answering(c, hi + 1)' /\ Judged(c)'
  <2>1. Handled(hi + 1) \in batch
    BY <1>0, <1>1, <1>2, <1>5, Lengths DEF Answering, Handled
  <2>. QED  BY <1>0, <1>2, <1>5, <2>1, HandledHandling, HandledAnswering, HandledJudged
<1>6. CASE Awaiting(lo, hi) \/ Closing(lo, hi)
  <2>. PICK c \in Int : c = cursor /\ lo <= c /\ c <= hi
    BY <1>2, <1>6 DEF Awaiting, Closing
  <2>1. Handling(hi + 1) /\ Answering(c, hi + 1) /\ Judged(c)
    BY <1>6 DEF Awaiting, Closing
  <2>2. Handling(hi + 1)' /\ Answering(c, hi + 1)' /\ Judged(c)'
    BY <1>5, <2>1
  <2>3. CASE Awaiting(lo, hi)
    BY <1>1, <2>2, <2>3 DEF Awaiting, StageIs
  <2>4. CASE Closing(lo, hi)
    BY <1>1, <2>2, <2>4 DEF Closing, StageIs
  <2>. QED  BY <1>6, <2>3, <2>4
<1>7. ASSUME NEW m \in batch, NEW k, Judged(m)
      PROVE  /\ Judged(m)' /\ (GaveUp(m, k) => GaveUp(m, k)') /\ (Shifted(m, k) => Shifted(m, k)')
             /\ (Skipped(m, k) => Skipped(m, k)')
  BY <1>0, <1>1, <1>7, HandledJudged DEF GaveUp, Shifted, Skipped, AcceptedBefore
<1>8. CASE Draining(lo, hi)
  <2>. PICK m \in batch :
         /\ m < cursor /\ Judged(m)
         /\ \/ GaveUp(m, cursor - 1) /\ confirms = <<>>
            \/ /\ Shifted(m, cursor - 1)
               /\ \A i \in DOMAIN confirms : confirms[i] => cursor + i - 2 \in accepted
    BY <1>8 DEF Draining
  <2>1. Judged(m)' /\ (GaveUp(m, cursor - 1) => GaveUp(m, cursor - 1)')
                   /\ (Shifted(m, cursor - 1) => Shifted(m, cursor - 1)')
    BY <1>1, <1>7 DEF GaveUp, Shifted
  <2>. QED  BY <1>1, <1>8, <2>1 DEF Draining, StageIs
<1>9. CASE Idle(lo, hi)
  <2>1. Answers => Answers'
    BY <1>1 DEF Answers
  <2>2. NothingSent => NothingSent'
    BY <1>1 DEF NothingSent
  <2>3. Interrupted(hi) => Interrupted(hi)'
    BY <1>1, <1>7 DEF Interrupted
  <2>4. CutShort => CutShort'
    <3>. SUFFICES ASSUME NEW m \in batch, failed = From(batch, m), Handling(m), Handled(m) \in batch
                  PROVE  Handling(m)' /\ Handled(m)' \in batch
      BY <1>1 DEF CutShort, From
    <3>1. /\ Handling(m)' /\ Handled(m)' = Handled(m) + 1 /\ Handled(m)' <= m
          /\ Handled(m) \in Int /\ m \in Int
      BY <1>0, <1>2, HandledHandling
    <3>. QED  BY <1>2, <3>1
  <2>5. cached' /\ ~ctxDone' => wire' = <<>> /\ acks' = <<>> /\ confirms' = <<>>
    BY <1>1, <1>9 DEF Idle
  <2>. QED  BY <1>1, <1>9, <2>1, <2>2, <2>3, <2>4, <2>5 DEF Idle, StageIs
<1>10. CASE Slipping(lo, hi)
  <2>. PICK m \in batch : m < cursor /\ Judged(m) /\ Skipped(m, cursor - 1)
    BY <1>10 DEF Slipping
  <2>. PICK c \in Int : c = cursor
    BY <1>2, <1>10 DEF Slipping
  <2>1. Judged(m)' /\ Skipped(m, c - 1)'
    BY <1>7
  <2>2. \A k : AcceptedBefore(k) => AcceptedBefore(k)'
    BY <1>1 DEF AcceptedBefore
  <2>3. \A i \in DOMAIN confirms' : confirms'[i] => AcceptedBefore(c + i - 1)'
    BY <1>1, <1>10, <2>2 DEF Slipping
  <2>0. Len(acks) \in Int /\ Len(confirms) \in Int /\ Len(acks) >= 0
    BY <1>0, Lengths
  <2>. PICK a \in Int, k \in Int : a = Len(acks) /\ k = Len(confirms) /\ a >= 0
    BY <2>0
  <2>4. ASSUME streamOpen
        PROVE  /\ \A i \in DOMAIN acks' : acks'[i] => AcceptedBefore(c + k + i - 1)'
               /\ \A i \in DOMAIN wire' : wire'[i] \in batch /\ wire'[i] < c + k + (a + 1) + i - 1
               /\ Len(acks') = a + 1
    <3>1. /\ Len(acks') = a + 1 /\ acks'[a + 1] = ok
          /\ \A i \in 1..a : acks'[i] = acks[i]
          /\ DOMAIN acks' = 1..a + 1
      <4>1. acks' = Append(acks, ok) /\ acks \in Seq(BOOLEAN)
        BY <1>0, <2>4, HandledOne DEF TypeOK
      <4>. QED  BY <4>1, AppendFacts
    <3>2. ASSUME NEW i \in DOMAIN wire
          PROVE  wire[i] \in batch /\ wire[i] < c + k + a + i - 1
      BY <1>10, <2>4 DEF Slipping
    <3>3. ASSUME NEW i \in 1..a + 1, acks'[i]
          PROVE  AcceptedBefore(c + k + i - 1)'
      <4>1. CASE i = a + 1
        <5>1. 1 \in DOMAIN wire /\ wire[1] \in batch /\ wire[1] < c + k + a + 1 - 1
          BY <1>1, <3>2
        <5>2. ok /\ wire[1] \in accepted'
          BY <1>0, <3>1, <3>3, <4>1, HandledOne
        <5>3. c + k + a + 1 - 1 = c + k + i - 1
          BY <4>1
        <5>. QED  BY <1>1, <5>1, <5>2, <5>3 DEF AcceptedBefore
      <4>2. CASE i \in 1..a
        <5>1. i \in DOMAIN acks /\ acks[i]
          BY <1>0, <3>1, <3>3, <4>2, Lengths
        <5>2. AcceptedBefore(c + k + i - 1)
          BY <1>10, <2>4, <5>1 DEF Slipping
        <5>. QED  BY <2>2, <5>2
      <4>. QED  BY <3>3, <4>1, <4>2
    <3>4. ASSUME NEW i \in DOMAIN wire'
          PROVE  wire'[i] \in batch /\ wire'[i] < c + k + (a + 1) + i - 1
      <4>1. i \in Int /\ i + 1 \in DOMAIN wire /\ wire'[i] = wire[i + 1]
        BY <1>1
      <4>2. wire[i + 1] \in batch /\ wire[i + 1] < c + k + a + (i + 1) - 1
        BY <3>2, <4>1
      <4>3. c + k + a + (i + 1) - 1 = c + k + (a + 1) + i - 1
        BY <4>1
      <4>. QED  BY <4>1, <4>2, <4>3
    <3>. QED  BY <3>1, <3>3, <3>4
  <2>. QED  BY <1>1, <1>10, <2>1, <2>3, <2>4 DEF Slipping, StageIs
<1>11. CASE AfterShutdown(lo, hi)
  BY <1>1, <1>11 DEF AfterShutdown, StageIs
<1>. QED  BY <1>4, <1>6, <1>8, <1>9, <1>10, <1>11 DEF StageIs

LEMMA ConfirmStep ==
  ASSUME PublisherInv, ConfirmArrives
  PROVE  PublisherInv'
<1>0. TypeOK /\ acks # <<>> /\ streamOpen
  BY DEF PublisherInv, ConfirmArrives
<1>1. /\ acks \in Seq(BOOLEAN) /\ confirms \in Seq(BOOLEAN)
      /\ Len(acks) \in Nat /\ DOMAIN acks = 1..Len(acks)
      /\ Len(confirms) \in Nat /\ DOMAIN confirms = 1..Len(confirms)
  BY <1>0, Lengths DEF TypeOK
<1>2. /\ acks' \in Seq(BOOLEAN) /\ Len(acks) > 0 /\ Len(acks') = Len(acks) - 1
      /\ \A i \in 1..Len(acks) - 1 : acks'[i] = acks[i + 1]
      /\ Head(acks) = acks[1] /\ Head(acks) \in BOOLEAN /\ DOMAIN acks' = 1..Len(acks) - 1
  BY <1>0, <1>1, TailFacts DEF ConfirmArrives
<1>3. /\ confirms' \in Seq(BOOLEAN) /\ Len(confirms') = Len(confirms) + 1
      /\ confirms'[Len(confirms) + 1] = acks[1]
      /\ \A i \in 1..Len(confirms) : confirms'[i] = confirms[i]
      /\ DOMAIN confirms' = 1..Len(confirms) + 1
  <2>1. confirms' = Append(confirms, Head(acks))
    BY DEF ConfirmArrives
  <2>. QED  BY <1>1, <1>2, <2>1, AppendFacts
<1>4. /\ UNCHANGED <<stage, batch, cursor, failed, cached, streamOpen, wire, connUp, ctxDone, accepted>>
      /\ seen \subseteq seen' /\ seen' \subseteq PublishFaults
      /\ stage = "closing" => "late" \in seen'
  BY <1>0 DEF ConfirmArrives, callVars, TypeOK, PublishFaults
<1>5. TypeOK'
  BY <1>0, <1>2, <1>3, <1>4 DEF TypeOK
<1>. PICK lo \in Messages, hi \in Messages : BatchIs(lo, hi) /\ StageIs(lo, hi) /\ ShutdownSeen
  BY <1>0 DEF PublisherInv, Fresh, CallInv
<1>6. lo \in Int /\ hi \in Int /\ lo <= hi /\ batch = lo..hi
  BY NumbersAre DEF BatchIs
<1>7. BatchIs(lo, hi)' /\ ShutdownSeen'
  BY <1>4 DEF BatchIs, ShutdownSeen
<1>8. ASSUME NEW f \in Int, Handling(f) PROVE Handling(f)' /\ Handled(f)' = Handled(f)
  BY <1>4, <1>8 DEF Handling, Handled
<1>9. ASSUME NEW r \in Int, NEW f \in Int, Answering(r, f), Handled(f)' = Handled(f)
      PROVE  Answering(r, f)'
  <2>1. r + Len(confirms) + Len(acks) = Handled(f)
    BY <1>0, <1>9 DEF Answering
  <2>2. r + Len(confirms') + Len(acks') = r + Len(confirms) + Len(acks)
    <3>1. Len(acks') = Len(acks) - 1 /\ Len(confirms') = Len(confirms) + 1
      BY <1>2, <1>3
    <3>. QED  BY <1>1, <3>1
  <2>3. \A i \in DOMAIN confirms' : confirms'[i] <=> r + i - 1 \in accepted
    <3>. TAKE i \in DOMAIN confirms'
    <3>1. CASE i \in 1..Len(confirms)
      <4>1. confirms'[i] = confirms[i] /\ i \in DOMAIN confirms
        BY <1>1, <1>3, <3>1
      <4>. QED  BY <1>9, <4>1 DEF Answering
    <3>2. CASE i = Len(confirms) + 1
      <4>1. confirms'[i] = acks[1] /\ 1 \in DOMAIN acks
        BY <1>1, <1>2, <1>3, <3>2
      <4>2. r + Len(confirms) + 1 - 1 = r + i - 1
        BY <1>1, <3>2
      <4>. QED  BY <1>9, <4>1, <4>2 DEF Answering
    <3>. QED  BY <1>1, <1>3, <3>1, <3>2
  <2>4. \A i \in DOMAIN acks' : acks'[i] <=> r + Len(confirms') + i - 1 \in accepted
    <3>. TAKE i \in DOMAIN acks'
    <3>1. acks'[i] = acks[i + 1] /\ i + 1 \in DOMAIN acks /\ i \in Int
      BY <1>1, <1>2
    <3>2. Len(confirms') = Len(confirms) + 1
      BY <1>3
    <3>3. r + Len(confirms) + (i + 1) - 1 = r + Len(confirms') + i - 1
      BY <1>1, <3>1, <3>2
    <3>. QED  BY <1>9, <3>1, <3>3 DEF Answering
  <2>. QED  BY <1>0, <1>1, <1>4, <1>9, <2>1, <2>2, <2>3, <2>4 DEF Answering
<1>10. ASSUME NEW m, Judged(m) PROVE Judged(m)'
  BY <1>4, <1>10 DEF Judged, OnWire
<1>. SUFFICES StageIs(lo, hi)'
  BY <1>5, <1>7 DEF PublisherInv, CallInv
<1>11. CASE Firing(lo, hi)
  <2>. PICK c \in Int : c = cursor
    BY <1>6, <1>11 DEF Firing
  <2>. QED  BY <1>0, <1>4, <1>6, <1>8, <1>9, <1>11 DEF Firing, StageIs
<1>12. CASE Awaiting(lo, hi)
  <2>. PICK c \in Int : c = cursor
    BY <1>6, <1>12 DEF Awaiting
  <2>. QED  BY <1>0, <1>4, <1>6, <1>8, <1>9, <1>10, <1>12 DEF Awaiting, StageIs
<1>13. CASE Closing(lo, hi)
  <2>. PICK c \in Int : c = cursor
    BY <1>6, <1>13 DEF Closing
  <2>1. confirms' # <<>>
    BY <1>1, <1>3
  <2>2. "late" \in seen'
    BY <1>4, <1>13 DEF Closing
  <2>. QED  BY <1>4, <1>6, <1>8, <1>9, <1>10, <1>13, <2>1, <2>2 DEF Closing, StageIs
<1>14. CASE Idle(lo, hi)
  <2>1. ~(cached /\ ~ctxDone)
    BY <1>0, <1>14 DEF Idle
  <2>2. /\ Answers => Answers' 
        /\ NothingSent => NothingSent'
        /\ Interrupted(hi) => Interrupted(hi)'
        /\ CutShort => CutShort'
    BY <1>4, <1>6, <1>8, <1>10 DEF Answers, NothingSent, Interrupted, CutShort, GaveUp, Shifted,
                             Skipped, AcceptedBefore, OnWire, From
  <2>. QED  BY <1>4, <1>14, <2>1, <2>2 DEF Idle, StageIs
<1>15. CASE Slipping(lo, hi)
  <2>. PICK m \in batch : m < cursor /\ Judged(m) /\ Skipped(m, cursor - 1)
    BY <1>15 DEF Slipping
  <2>. PICK c \in Int : c = cursor
    BY <1>6, <1>15 DEF Slipping
  <2>7. Len(acks) \in Int /\ Len(confirms) \in Int /\ Len(acks) >= 1 /\ Len(confirms) >= 0
    BY <1>1, <1>2
  <2>. PICK a \in Int, k \in Int : a = Len(acks) /\ k = Len(confirms) /\ a >= 1 /\ k >= 0
    BY <2>7
  <2>0. Len(acks') = a - 1 /\ Len(confirms') = k + 1
    BY <1>2, <1>3
  <2>1. \A x : AcceptedBefore(x) <=> AcceptedBefore(x)'
    BY <1>4 DEF AcceptedBefore
  <2>2. Judged(m)' /\ Skipped(m, c - 1)'
    BY <1>4, <1>10, <2>1 DEF Skipped
  <2>3. ASSUME NEW i \in DOMAIN acks, acks[i] PROVE AcceptedBefore(c + k + i - 1)
    BY <1>0, <1>15, <2>3 DEF Slipping
  <2>4. ASSUME NEW i \in DOMAIN confirms', confirms'[i] PROVE AcceptedBefore(c + i - 1)
    <3>1. CASE i \in 1..k
      BY <1>1, <1>3, <1>15, <2>4, <3>1 DEF Slipping
    <3>2. CASE i = k + 1
      <4>1. 1 \in DOMAIN acks /\ acks[1]
        BY <1>1, <1>3, <2>4, <3>2
      <4>2. AcceptedBefore(c + k + 1 - 1) /\ c + k + 1 - 1 = c + i - 1
        BY <2>3, <3>2, <4>1
      <4>. QED  BY <4>2
    <3>. QED  BY <1>3, <2>4, <3>1, <3>2
  <2>5. ASSUME NEW i \in DOMAIN acks', acks'[i] PROVE AcceptedBefore(c + (k + 1) + i - 1)
    <3>1. i \in Int /\ i + 1 \in DOMAIN acks /\ acks[i + 1]
      BY <1>1, <1>2, <2>5
    <3>2. AcceptedBefore(c + k + (i + 1) - 1) /\ c + k + (i + 1) - 1 = c + (k + 1) + i - 1
      BY <2>3, <3>1
    <3>. QED  BY <3>2
  <2>6. ASSUME NEW i \in DOMAIN wire
        PROVE  wire[i] \in batch /\ wire[i] < c + (k + 1) + (a - 1) + i - 1
    <3>1. wire[i] \in batch /\ wire[i] < c + k + a + i - 1
      BY <1>0, <1>15 DEF Slipping
    <3>2. c + k + a = c + (k + 1) + (a - 1)
      OBVIOUS
    <3>. QED  BY <3>1, <3>2
  <2>. QED  BY <1>4, <1>15, <2>0, <2>1, <2>2, <2>4, <2>5, <2>6 DEF Slipping, StageIs
<1>16. CASE AfterShutdown(lo, hi)
  BY <1>4, <1>16 DEF AfterShutdown, StageIs
<1>. QED  BY <1>0, <1>11, <1>12, <1>13, <1>14, <1>15, <1>16 DEF StageIs, Draining

\* The faults that a dying channel is recorded as are those its stage allows for.
LEMMA ChannelDiesStep ==
  ASSUME PublisherInv, ChannelDies
  PROVE  PublisherInv'
<1>0. TypeOK /\ streamOpen
  BY DEF PublisherInv, ChannelDies
<1>1. /\ UNCHANGED <<stage, batch, cursor, failed, cached, wire, confirms, ctxDone, accepted>>
      /\ ~streamOpen' /\ streamOpen' \in BOOLEAN /\ acks' = <<>> /\ connUp' \in BOOLEAN
      /\ seen' = IF stage = "idle" THEN seen ELSE seen \cup {DeathFault}
  BY DEF ChannelDies, callVars
<1>2. stage # "idle" => DeathFault \in PublishFaults
  BY <1>0 DEF TypeOK, DeathFault, PublishFaults
<1>3. TypeOK' /\ seen \subseteq seen'
  BY <1>0, <1>1, <1>2 DEF TypeOK
<1>. PICK lo \in Messages, hi \in Messages : BatchIs(lo, hi) /\ StageIs(lo, hi) /\ ShutdownSeen
  BY <1>0 DEF PublisherInv, Fresh, CallInv
<1>4. lo \in Int /\ hi \in Int /\ lo <= hi /\ batch = lo..hi
  BY NumbersAre DEF BatchIs
<1>5. BatchIs(lo, hi)' /\ ShutdownSeen'
  BY <1>1, <1>3 DEF BatchIs, ShutdownSeen
<1>. SUFFICES StageIs(lo, hi)'
  BY <1>3, <1>5 DEF PublisherInv, CallInv
<1>6. ASSUME NEW f \in Int, Handling(f) PROVE Handling(f)' /\ Handled(f)' = Handled(f)
  BY <1>1, <1>3, <1>6 DEF Handling, Handled
<1>7. ASSUME NEW r \in Int, NEW f \in Int, Answering(r, f), Handled(f)' = Handled(f), Handled(f) \in Int
      PROVE  Answering(r, f)'
  <2>1. Len(confirms) \in Nat /\ Len(acks) \in Nat /\ Len(acks') = 0 /\ DOMAIN acks' = {}
    BY <1>0, <1>1, Lengths
  <2>2. r + Len(confirms) + Len(acks') <= Handled(f)
    BY <1>7, <2>1 DEF Answering
  <2>. QED  BY <1>1, <1>7, <2>1, <2>2 DEF Answering
<1>8. ASSUME NEW m, Judged(m) PROVE Judged(m)'
  BY <1>1, <1>3, <1>8 DEF Judged, OnWire
<1>9. \A f \in Int : Handled(f) \in Int
  BY <1>0, Lengths DEF Handled
<1>10. CASE Firing(lo, hi)
  <2>. PICK c \in Int : c = cursor
    BY <1>4, <1>10 DEF Firing
  <2>1. DeathFault = IF c = lo THEN "channel" ELSE "fire"
    BY <1>4, <1>10 DEF Firing, DeathFault
  <2>2. (IF c = lo THEN "channel" ELSE "fire") \in seen'
    BY <1>1, <1>10, <2>1 DEF Firing
  <2>3. Handling(c)' /\ Answering(lo, c)'
    BY <1>4, <1>6, <1>7, <1>9, <1>10 DEF Firing
  <2>. QED  BY <1>1, <1>10, <2>2, <2>3 DEF Firing, StageIs
<1>11. CASE Awaiting(lo, hi)
  <2>. PICK c \in Int : c = cursor
    BY <1>4, <1>11 DEF Awaiting
  <2>1. "timeout" \in seen'
    BY <1>1, <1>11 DEF Awaiting, DeathFault
  <2>2. Handling(hi + 1)' /\ Answering(c, hi + 1)' /\ Judged(c)'
    BY <1>4, <1>6, <1>7, <1>8, <1>9, <1>11 DEF Awaiting
  <2>. QED  BY <1>1, <1>11, <2>1, <2>2 DEF Awaiting, StageIs
<1>12. CASE Closing(lo, hi)
  <2>. PICK c \in Int : c = cursor
    BY <1>4, <1>12 DEF Closing
  <2>1. Handling(hi + 1)' /\ Answering(c, hi + 1)' /\ Judged(c)'
    BY <1>4, <1>6, <1>7, <1>8, <1>9, <1>12 DEF Closing
  <2>. QED  BY <1>1, <1>3, <1>12, <2>1 DEF Closing, StageIs
<1>13. CASE Idle(lo, hi)
  <2>1. /\ Answers => Answers' 
        /\ NothingSent => NothingSent'
        /\ Interrupted(hi) => Interrupted(hi)'
        /\ CutShort => CutShort'
    BY <1>1, <1>3, <1>4, <1>6, <1>8 DEF Answers, NothingSent, Interrupted, CutShort, GaveUp, Shifted,
                             Skipped, AcceptedBefore, OnWire, From
  <2>. QED  BY <1>1, <1>13, <2>1 DEF Idle, StageIs
<1>14. CASE Slipping(lo, hi)
  BY <1>1, <1>3, <1>8, <1>14 DEF Slipping, StageIs, Skipped, AcceptedBefore
<1>15. CASE AfterShutdown(lo, hi)
  BY <1>1, <1>3, <1>15 DEF AfterShutdown, StageIs
<1>. QED  BY <1>0, <1>10, <1>11, <1>12, <1>13, <1>14, <1>15 DEF StageIs, Draining

\* A shutdown leaves every account of a call as it is.
LEMMA AccountsKept ==
  ASSUME NEW lo \in Messages, NEW hi \in Messages, BatchIs(lo, hi), StageIs(lo, hi),
         UNCHANGED <<stage, batch, cursor, failed, cached, streamOpen, wire, acks, confirms, accepted>>,
         ctxDone => ctxDone', seen \subseteq seen'
  PROVE  BatchIs(lo, hi)' /\ StageIs(lo, hi)'
<1>1. BatchIs(lo, hi)'
  BY DEF BatchIs
<1>2. \A f : /\ Handling(f) => Handling(f)' /\ Handled(f)' = Handled(f)
             /\ \A r : Answering(r, f) => Answering(r, f)'
  BY DEF Handling, Handled, Answering
<1>3. \A m : /\ Judged(m) => Judged(m)'
             /\ \A k : (GaveUp(m, k) => GaveUp(m, k)') /\ (Shifted(m, k) => Shifted(m, k)')
                      /\ (Skipped(m, k) => Skipped(m, k)')
  BY DEF Judged, OnWire, GaveUp, Shifted, Skipped, AcceptedBefore
<1>4. Firing(lo, hi) => Firing(lo, hi)'
  BY <1>2 DEF Firing
<1>5. Awaiting(lo, hi) => Awaiting(lo, hi)'
  BY <1>2, <1>3 DEF Awaiting
<1>6. Closing(lo, hi) => Closing(lo, hi)'
  BY <1>2, <1>3 DEF Closing
<1>7. Draining(lo, hi) => Draining(lo, hi)'
  BY <1>3 DEF Draining
<1>8. Slipping(lo, hi) => Slipping(lo, hi)'
  BY <1>3 DEF Slipping, AcceptedBefore
<1>9. Idle(lo, hi) => Idle(lo, hi)'
  <2>1. /\ Answers => Answers'
        /\ NothingSent => NothingSent'
        /\ Interrupted(hi) => Interrupted(hi)'
        /\ CutShort => CutShort'
    BY <1>2, <1>3 DEF Answers, NothingSent, Interrupted, CutShort, OnWire, From
  <2>. QED  BY <2>1 DEF Idle
<1>10. AfterShutdown(lo, hi) => AfterShutdown(lo, hi)'
  BY DEF AfterShutdown
<1>. QED  BY <1>1, <1>4, <1>5, <1>6, <1>7, <1>8, <1>9, <1>10 DEF StageIs

LEMMA ShutdownStep ==
  ASSUME PublisherInv, Shutdown
  PROVE  PublisherInv'
<1>1. /\ ctxDone' = TRUE /\ seen' = IF stage = "idle" THEN seen ELSE seen \cup {"cancel"}
      /\ UNCHANGED <<stage, batch, cursor, failed, cached, streamOpen, wire, acks, confirms, connUp, accepted>>
  BY DEF Shutdown, callVars, chanVars
<1>2. TypeOK' /\ ShutdownSeen'
  BY <1>1 DEF PublisherInv, TypeOK, PublishFaults, ShutdownFaults, ShutdownSeen
<1>3. Fresh => Fresh'
  BY <1>1 DEF Fresh
<1>4. seen \subseteq seen' /\ (ctxDone => ctxDone')
  BY <1>1
<1>5. ASSUME NEW lo \in Messages, NEW hi \in Messages, BatchIs(lo, hi), StageIs(lo, hi)
      PROVE  BatchIs(lo, hi)' /\ StageIs(lo, hi)'
  BY <1>1, <1>4, <1>5, AccountsKept
<1>. QED  BY <1>2, <1>3, <1>5 DEF PublisherInv, CallInv

-----------------------------------------------------------------------------

LEMMA PublisherInit == Init => PublisherInv
<1>. SUFFICES ASSUME Init PROVE PublisherInv
  OBVIOUS
<1>1. cursor \in 0..MaxMessages + 1
  BY MaxMessagesAssumption DEF Init
<1>2. /\ wire \in Seq(Messages)
      /\ acks \in Seq(BOOLEAN)
      /\ confirms \in Seq(BOOLEAN)
  <2>1. \A S : <<>> \in Seq(S)
    OBVIOUS
  <2>. QED  BY Zenon, <2>1 DEF Init
<1>3. /\ stage \in {"idle", "firing", "awaiting", "closing"}
      /\ cached \in BOOLEAN /\ streamOpen \in BOOLEAN /\ connUp \in BOOLEAN /\ ctxDone \in BOOLEAN
  BY Zenon DEF Init
<1>4. /\ batch \subseteq Messages /\ failed \subseteq batch
      /\ accepted \subseteq Messages /\ seen \subseteq PublishFaults
  BY DEF Init
<1>5. TypeOK
  BY Zenon, <1>1, <1>2, <1>3, <1>4 DEF TypeOK
<1>. QED  BY <1>5 DEF Init, PublisherInv, Fresh

LEMMA PublisherNext == PublisherInv /\ [Next]_vars => PublisherInv'
<1>1. PublisherInv /\ UNCHANGED vars => PublisherInv'
  <2>. SUFFICES ASSUME PublisherInv, UNCHANGED vars PROVE PublisherInv'
    OBVIOUS
  <2>1. TypeOK' /\ (Fresh => Fresh')
    BY DEF vars, PublisherInv, TypeOK, Fresh
  <2>2. ASSUME NEW lo \in Messages, NEW hi \in Messages, BatchIs(lo, hi), StageIs(lo, hi)
        PROVE  BatchIs(lo, hi)' /\ StageIs(lo, hi)'
    BY <2>2, AccountsKept DEF vars
  <2>3. ShutdownSeen => ShutdownSeen'
    BY DEF vars, ShutdownSeen
  <2>. QED  BY <2>1, <2>2, <2>3 DEF PublisherInv, CallInv
<1>. QED  BY <1>1, StartCachedStep, StartFailsStep, FireStep, FireFailsStep, ReadConfirmStep,
             ReadClosedStep, CtxDoneStep, TimeoutStep, CloseCompletesStep, BrokerStep, ConfirmStep,
             ChannelDiesStep, ShutdownStep DEF Next, PublisherStep, Environment

LEMMA PublisherSafe == Spec => []PublisherInv
BY PublisherInit, PublisherNext, PTL DEF Spec

\* Type correctness; in particular no call leaves a result for a message that is
\* not of its batch, and the counter stays within the messages handed over.
THEOREM PublisherTypes == Spec => []TypeOK
<1>1. PublisherInv => TypeOK
  BY DEF PublisherInv
<1>. QED  BY <1>1, PublisherSafe, PTL

\* Every call of PublishBatch that has returned has one of the outcomes of
\* PublishContract for the faults it met, whatever the sizes of the batches, the
\* order of the confirms' arrival, the messages a dead channel left behind and
\* the moment a shutdown ends the context.
THEOREM PublisherMeetsContract == Spec => []MeetsContract
<1>1. PublisherInv => MeetsContract
  <2>. SUFFICES ASSUME PublisherInv, stage = "idle", batch # {}
                PROVE  Outcome(failed, accepted \cap batch) \in PublishOutcomes(batch, seen)
    BY DEF MeetsContract
  <2>1. TypeOK /\ \E lo, hi \in Messages :
                   BatchIs(lo, hi) /\ (Idle(lo, hi) \/ AfterShutdown(lo, hi))
    BY DEF PublisherInv, Fresh, CallInv, StageIs, Firing, Awaiting, Closing, Draining, Slipping
  <2>. QED  BY <2>1, ContractMet
<1>. QED  BY <1>1, PublisherSafe, PTL

\* Until the process shuts down, the channel a call leaves cached owes no confirm
\* that the next call could mistake for one of its own.
THEOREM CachedChannelDrained == Spec => []ChannelDrained
<1>1. PublisherInv => ChannelDrained
  BY BetweenCalls DEF PublisherInv, Fresh, ChannelDrained
<1>. QED  BY <1>1, PublisherSafe, PTL
=============================================================================
