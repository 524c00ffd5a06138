------------------------- MODULE ShardConsumerProofs -------------------------
(***************************************************************************)
(* Proofs about a shard: no copy-then-ack sequence drops a message, and    *)
(* only exhausted messages are dead-lettered, for any number of replicas,  *)
(* messages, tool runs and disruptions.                                    *)
(*                                                                         *)
(* A copy that is about to be acked no longer counts: the invariant says   *)
(* that every message not yet processed or purged has a copy that does.    *)
(* The purge rotates the queue it inspects: what it has not seen yet is    *)
(* always within the deliveries it still has to take.                      *)
(***************************************************************************)
EXTENDS ShardConsumer, SequenceTheorems, TLAPS

-----------------------------------------------------------------------------
(* What is in a sequence. *)

LEMMA ElemsAppend ==
  ASSUME NEW S, NEW s \in Seq(S), NEW x \in S
  PROVE  /\ Append(s, x) \in Seq(S)
         /\ Elems(Append(s, x)) = Elems(s) \cup {x}
         /\ Ids(Append(s, x)) = Ids(s) \cup {x.msg}
<1>1. Append(s, x) \in Seq(S)
  BY AppendProperties
<1>2. Elems(Append(s, x)) = Elems(s) \cup {x}
  <2>1. ASSUME NEW y \in Elems(Append(s, x)) PROVE y \in Elems(s) \cup {x}
    <3>1. PICK i \in 1 .. Len(s) + 1 : y = Append(s, x)[i]
      BY AppendProperties DEF Elems
    <3>2. CASE i = Len(s) + 1
      BY <3>1, <3>2, AppendProperties
    <3>3. CASE i # Len(s) + 1
      <4>1. i \in 1 .. Len(s) /\ Append(s, x)[i] = s[i]
        BY <3>3, AppendProperties
      <4>. QED  BY <3>1, <4>1 DEF Elems
    <3>. QED  BY <3>2, <3>3
  <2>2. Elems(s) \subseteq Elems(Append(s, x))
    <3>. SUFFICES ASSUME NEW i \in 1 .. Len(s)
                  PROVE  s[i] \in Elems(Append(s, x))
      BY DEF Elems
    <3>. QED  BY AppendProperties DEF Elems
  <2>3. x \in Elems(Append(s, x))
    BY AppendProperties DEF Elems
  <2>. QED  BY <2>1, <2>2, <2>3
<1>. QED  BY <1>1, <1>2 DEF Ids

LEMMA ElemsHeadTail ==
  ASSUME NEW S, NEW s \in Seq(S), s # <<>>
  PROVE  /\ Head(s) \in S
         /\ Tail(s) \in Seq(S) /\ Len(Tail(s)) = Len(s) - 1
         /\ Elems(s) = {Head(s)} \cup Elems(Tail(s))
         /\ Ids(s) = {Head(s).msg} \cup Ids(Tail(s))
<1>1. /\ Head(s) \in S /\ Head(s) = s[1]
      /\ Tail(s) \in Seq(S) /\ Len(Tail(s)) = Len(s) - 1
      /\ \A i \in 1 .. Len(Tail(s)) : Tail(s)[i] = s[i + 1]
  BY HeadTailProperties
<1>2. Len(s) \in Nat \ {0}
  BY EmptySeq, LenProperties
<1>3. Elems(s) = {Head(s)} \cup Elems(Tail(s))
  <2>1. ASSUME NEW i \in 1 .. Len(s) PROVE s[i] \in {Head(s)} \cup Elems(Tail(s))
    <3>1. CASE i = 1
      BY <1>1, <3>1
    <3>2. CASE i # 1
      <4>1. i - 1 \in 1 .. Len(Tail(s)) /\ Tail(s)[i - 1] = s[i]
        BY <1>1, <1>2, <3>2
      <4>. QED  BY <4>1, <1>1, LenProperties DEF Elems
    <3>. QED  BY <3>1, <3>2
  <2>2. ASSUME NEW i \in 1 .. Len(Tail(s)) PROVE Tail(s)[i] \in Elems(s)
    <3>1. i + 1 \in 1 .. Len(s) /\ Tail(s)[i] = s[i + 1]
      BY <1>1, <1>2
    <3>. QED  BY <3>1 DEF Elems
  <2>3. Head(s) \in Elems(s)
    BY <1>1, <1>2 DEF Elems
  <2>. QED  BY <2>1, <2>2, <2>3 DEF Elems
<1>. QED  BY <1>1, <1>3 DEF Ids

LEMMA ElemsConcat ==
  ASSUME NEW S, NEW s \in Seq(S), NEW t \in Seq(S)
  PROVE  /\ s \o t \in Seq(S)
         /\ Elems(s \o t) = Elems(s) \cup Elems(t)
         /\ Ids(s \o t) = Ids(s) \cup Ids(t)
<1>1. /\ s \o t \in Seq(S) /\ Len(s \o t) = Len(s) + Len(t)
      /\ Len(s) \in Nat /\ Len(t) \in Nat
      /\ \A i \in 1 .. Len(s) + Len(t) :
           (s \o t)[i] = IF i <= Len(s) THEN s[i] ELSE t[i - Len(s)]
  BY ConcatProperties, LenProperties
<1>2. Elems(s \o t) = Elems(s) \cup Elems(t)
  <2>1. ASSUME NEW i \in 1 .. Len(s) + Len(t)
        PROVE  (s \o t)[i] \in Elems(s) \cup Elems(t)
    <3>1. CASE i <= Len(s)
      BY <1>1, <3>1 DEF Elems
    <3>2. CASE ~(i <= Len(s))
      <4>1. i - Len(s) \in 1 .. Len(t)
        BY <1>1, <3>2
      <4>. QED  BY <1>1, <3>2, <4>1 DEF Elems
    <3>. QED  BY <3>1, <3>2
  <2>2. ASSUME NEW i \in 1 .. Len(s) PROVE s[i] \in Elems(s \o t)
    BY <1>1 DEF Elems
  <2>3. ASSUME NEW i \in 1 .. Len(t) PROVE t[i] \in Elems(s \o t)
    <3>1. Len(s) + i \in 1 .. Len(s) + Len(t) /\ ~(Len(s) + i <= Len(s))
          /\ (Len(s) + i) - Len(s) = i
      BY <1>1
    <3>2. (s \o t)[Len(s) + i] = t[i]
      BY <1>1, <3>1
    <3>. QED  BY <1>1, <3>1, <3>2, LenProperties DEF Elems
  <2>4. /\ DOMAIN (s \o t) = 1 .. Len(s) + Len(t)
        /\ DOMAIN s = 1 .. Len(s) /\ DOMAIN t = 1 .. Len(t)
    BY <1>1, LenProperties
  <2>5. Elems(s \o t) \subseteq Elems(s) \cup Elems(t)
    BY <2>1, <2>4 DEF Elems
  <2>6. Elems(s) \subseteq Elems(s \o t)
    BY <2>2, <2>4 DEF Elems
  <2>7. Elems(t) \subseteq Elems(s \o t)
    BY <2>3, <2>4 DEF Elems
  <2>. QED  BY <2>5, <2>6, <2>7
<1>. QED  BY <1>1, <1>2 DEF Ids

LEMMA ElemsSmall ==
  ASSUME NEW x
  PROVE  /\ Elems(<<>>) = {} /\ Ids(<<>>) = {}
         /\ Elems(<<x>>) = {x} /\ Ids(<<x>>) = {x.msg}
  BY DEF Elems, Ids

LEMMA ElemsSingle ==
  ASSUME NEW S, NEW s \in Seq(S), s # <<>>, Len(s) <= 1
  PROVE  Head(s) \in S /\ Ids(s) = {Head(s).msg}
<1>1. /\ Head(s) \in S /\ Tail(s) \in Seq(S) /\ Len(Tail(s)) = Len(s) - 1
      /\ Ids(s) = {Head(s).msg} \cup Ids(Tail(s))
  BY ElemsHeadTail
<1>2. Len(s) = 1
  <2>1. Len(s) \in Nat \ {0}
    BY EmptySeq
  <2>. QED  BY <2>1
<1>3. Tail(s) = <<>>
  <2>1. Len(Tail(s)) = 0
    BY <1>1, <1>2
  <2>2. Tail(s) # <<>> => Len(Tail(s)) \in Nat \ {0}
    BY <1>1, EmptySeq
  <2>. QED  BY <2>1, <2>2
<1>. QED  BY <1>1, <1>3, ElemsSmall

LEMMA ElemsInSet ==
  ASSUME NEW S, NEW s \in Seq(S)
  PROVE  Elems(s) \subseteq S
  BY DEF Elems

-----------------------------------------------------------------------------
(* The inductive invariant. *)

\* A copy of a message that was sent.
SentCopy == [msg : sent, count : 0 .. MaxDeliveries - 1]

QueuesOK ==
  /\ main \in Seq(SentCopy) /\ retry \in Seq(SentCopy) /\ dlq \in Seq(SentCopy)
  /\ got \in Seq(SentCopy) /\ Len(got) <= 1
  /\ unacked \in [Consumers -> Seq(SentCopy)]
  /\ \A c \in Consumers : Len(unacked[c]) <= Prefetch

RestOK ==
  /\ stage \in [Consumers -> {"waiting", "ack", "reject", "retry", "nack"}]
  /\ tool \in {"none", "drain", "purge"}
  /\ copied \in BOOLEAN
  /\ quota \in Nat /\ toolRuns \in 0..MaxToolRuns
  /\ purged \subseteq sent \cap Loadtest /\ unseen \subseteq sent
  /\ sent \subseteq Messages /\ processed \subseteq sent
  /\ disruptions \in 0..MaxDisruptions

Exhausted(x) == x.count + 1 >= MaxDeliveries \/ x.msg \in BadSchema

\* handle() is busy only with a delivery, and gives up only on an exhausted one.
StageOK ==
  \A c \in Consumers :
    /\ stage[c] # "waiting" => unacked[c] # <<>>
    /\ stage[c] = "retry" => ~Exhausted(Current(c))
    /\ stage[c] = "reject" => Exhausted(Current(c))

DeadOK == \A x \in Elems(dlq) \cup Elems(got) : Exhausted(x)

ShardInv == QueuesOK /\ RestOK /\ StageOK /\ DeadOK

LEMMA ShardTyped == ShardInv => TypeOK
<1>. SUFFICES ASSUME ShardInv PROVE TypeOK
  OBVIOUS
<1>1. SentCopy \subseteq Copy
  BY DEF ShardInv, RestOK, SentCopy, Copy
<1>2. \A s \in Seq(SentCopy) : s \in Seq(Copy)
  BY <1>1, SeqMonotonic
<1>3. unacked \in [Consumers -> Seq(Copy)]
  BY <1>2 DEF ShardInv, QueuesOK
<1>4. /\ main \in Seq(Copy) /\ retry \in Seq(Copy) /\ dlq \in Seq(Copy)
      /\ got \in Seq(Copy) /\ Len(got) <= 1
  BY <1>2 DEF ShardInv, QueuesOK
<1>. QED  BY <1>3, <1>4 DEF ShardInv, QueuesOK, RestOK, TypeOK

LEMMA ShardInit == Init => ShardInv
<1>. SUFFICES ASSUME Init PROVE ShardInv
  OBVIOUS
<1>1. <<>> \in Seq(SentCopy) /\ Len(<<>>) = 0
  BY EmptySeq
<1>2. QueuesOK
  BY <1>1, PrefetchAssumption DEF Init, QueuesOK
<1>3. RestOK
  <2>1. 0 \in 0..MaxToolRuns /\ 0 \in 0..MaxDisruptions
    BY BoundsAssumption
  <2>2. toolRuns \in 0..MaxToolRuns /\ disruptions \in 0..MaxDisruptions
    BY <2>1 DEF Init
  <2>3. copied \in BOOLEAN
    BY DEF Init
  <2>4. stage \in [Consumers -> {"waiting", "ack", "reject", "retry", "nack"}]
    BY DEF Init
  <2>. QED  BY <2>2, <2>3, <2>4 DEF Init, RestOK
<1>4. StageOK /\ DeadOK
  BY ElemsSmall DEF Init, StageOK, DeadOK
<1>. QED  BY <1>2, <1>3, <1>4 DEF ShardInv

LEMMA PublishShard ==
  ASSUME ShardInv, NEW m \in Messages, Publish(m)
  PROVE  ShardInv'
<1>. USE DEF ShardInv
<1>1. SentCopy \subseteq SentCopy'
  BY DEF Publish, SentCopy
<1>2. \A s \in Seq(SentCopy) : s \in Seq(SentCopy')
  BY <1>1, SeqMonotonic
<1>3. [msg |-> m, count |-> 0] \in SentCopy'
  BY MaxDeliveriesAssumption DEF Publish, SentCopy
<1>4. main' \in Seq(SentCopy')
  BY <1>2, <1>3, ElemsAppend DEF Publish, QueuesOK
<1>5. QueuesOK'
  BY <1>2, <1>4 DEF Publish, QueuesOK, consVars, toolVars
<1>6. RestOK'
  BY BoundsAssumption DEF Publish, RestOK, consVars, toolVars, Disrupt
<1>7. StageOK' /\ DeadOK'
  BY DEF Publish, StageOK, DeadOK, Current, consVars, toolVars
<1>. QED  BY <1>5, <1>6, <1>7

LEMMA DeliverShard ==
  ASSUME ShardInv, NEW c \in Consumers, Deliver(c)
  PROVE  ShardInv'
<1>. USE DEF ShardInv
<1>1. SentCopy' = SentCopy
  BY DEF Deliver, SentCopy
<1>2. /\ Head(main) \in SentCopy /\ Tail(main) \in Seq(SentCopy)
      /\ unacked[c] \in Seq(SentCopy) /\ Append(unacked[c], Head(main)) \in Seq(SentCopy)
  BY ElemsHeadTail, ElemsAppend DEF Deliver, QueuesOK
<1>3. Len(Append(unacked[c], Head(main))) = Len(unacked[c]) + 1
  BY <1>2, AppendProperties
<1>4. QueuesOK'
  <2>1. \A d \in Consumers : Len(unacked'[d]) <= Prefetch
    BY <1>2, <1>3, PrefetchAssumption, LenProperties DEF Deliver, QueuesOK
  <2>. QED  BY <1>1, <1>2, <2>1 DEF Deliver, QueuesOK, toolVars
<1>5. RestOK'
  BY DEF Deliver, RestOK, toolVars
<1>6. StageOK'
  <2>1. Append(unacked[c], Head(main)) # <<>>
    BY <1>2, AppendProperties
  <2>2. unacked[c] # <<>> => Head(Append(unacked[c], Head(main))) = Head(unacked[c])
    BY <1>2, HeadTailAppend
  <2>. QED  BY <2>1, <2>2 DEF Deliver, QueuesOK, StageOK, Current
<1>7. DeadOK'
  BY DEF Deliver, DeadOK, toolVars
<1>. QED  BY <1>4, <1>5, <1>6, <1>7

LEMMA RetryExpiresShard ==
  ASSUME ShardInv, RetryExpires
  PROVE  ShardInv'
<1>. USE DEF ShardInv
<1>1. SentCopy' = SentCopy
  BY DEF RetryExpires, SentCopy
<1>2. Head(retry) \in SentCopy /\ Tail(retry) \in Seq(SentCopy)
  BY ElemsHeadTail DEF RetryExpires, QueuesOK
<1>3. Append(main, Head(retry)) \in Seq(SentCopy)
  BY <1>2, ElemsAppend DEF QueuesOK
<1>4. QueuesOK'
  BY <1>1, <1>2, <1>3 DEF RetryExpires, QueuesOK, consVars, toolVars
<1>5. RestOK' /\ StageOK' /\ DeadOK'
  BY DEF RetryExpires, RestOK, StageOK, DeadOK, Current, consVars, toolVars
<1>. QED  BY <1>4, <1>5

LEMMA ExecuteShard ==
  ASSUME ShardInv, NEW c \in Consumers, NEW ok \in BOOLEAN, Execute(c, ok)
  PROVE  ShardInv'
<1>. USE DEF ShardInv
<1>1. SentCopy' = SentCopy
  BY DEF Execute, SentCopy
<1>2. Current(c) \in SentCopy
  BY ElemsHeadTail DEF Execute, Current, QueuesOK
<1>3. QueuesOK'
  BY <1>1 DEF Execute, QueuesOK, queueVars, toolVars
<1>4. RestOK'
  BY <1>2 DEF Execute, RestOK, OnFailure, SentCopy, toolVars
<1>5. StageOK'
  BY <1>2 DEF Execute, RestOK, StageOK, OnFailure, Exhausted, Current, SentCopy
<1>6. DeadOK'
  BY DEF Execute, DeadOK, queueVars, toolVars
<1>. QED  BY <1>3, <1>4, <1>5, <1>6

LEMMA CopiedForRetry ==
  ASSUME ShardInv, NEW c \in Consumers, stage[c] = "retry", CopyForRetry(c)
  PROVE  /\ retry' \in Seq(SentCopy)
         /\ Ids(retry') = Ids(retry) \cup {Current(c).msg}
<1>1. unacked[c] \in Seq(SentCopy) /\ unacked[c] # <<>> /\ ~Exhausted(Current(c))
  BY DEF ShardInv, QueuesOK, StageOK
<1>2. Current(c) \in SentCopy
  BY <1>1, ElemsHeadTail DEF Current
<1>3. [Current(c) EXCEPT !.count = @ + 1] \in SentCopy
  <2>1. Current(c).count + 1 \in 0 .. MaxDeliveries - 1
    BY <1>1, <1>2, MaxDeliveriesAssumption DEF SentCopy, Exhausted
  <2>. QED  BY <1>2, <2>1 DEF SentCopy
<1>4. [Current(c) EXCEPT !.count = @ + 1].msg = Current(c).msg
  BY <1>2 DEF SentCopy
<1>5. retry \in Seq(SentCopy)
  BY DEF ShardInv, QueuesOK
<1>6. PICK x \in SentCopy : x.msg = Current(c).msg /\ retry' = Append(retry, x)
  BY <1>3, <1>4, Zenon DEF CopyForRetry
<1>. QED  BY <1>5, <1>6, ElemsAppend

LEMMA RequeueShard ==
  ASSUME ShardInv, NEW c \in Consumers, Requeue(c) \/ RequeueFails(c)
  PROVE  ShardInv'
<1>. USE DEF ShardInv
<1>1. SentCopy' = SentCopy
  BY DEF Requeue, RequeueFails, SentCopy
<1>2. retry' \in Seq(SentCopy)
  BY CopiedForRetry DEF Requeue, RequeueFails, QueuesOK
<1>3. QueuesOK'
  BY <1>1, <1>2 DEF Requeue, RequeueFails, QueuesOK, toolVars
<1>4. RestOK'
  BY BoundsAssumption DEF Requeue, RequeueFails, RestOK, Disrupt, toolVars
<1>5. StageOK' /\ DeadOK'
  BY DEF Requeue, RequeueFails, RestOK, StageOK, DeadOK, Current, toolVars
<1>. QED  BY <1>3, <1>4, <1>5

LEMMA SettleShard ==
  ASSUME ShardInv, NEW c \in Consumers, Settle(c)
  PROVE  ShardInv'
<1>. USE DEF ShardInv
<1>1. SentCopy' = SentCopy
  BY DEF Settle, SentCopy
<1>2. unacked[c] \in Seq(SentCopy) /\ unacked[c] # <<>>
  BY DEF Settle, QueuesOK, StageOK
<1>3. Current(c) \in SentCopy /\ Tail(unacked[c]) \in Seq(SentCopy)
      /\ Len(Tail(unacked[c])) = Len(unacked[c]) - 1
  BY <1>2, ElemsHeadTail DEF Current
<1>4. <<Current(c)>> \in Seq(SentCopy)
  BY <1>3
<1>5. /\ <<Current(c)>> \o main \in Seq(SentCopy)
      /\ Append(dlq, Current(c)) \in Seq(SentCopy)
      /\ Elems(Append(dlq, Current(c))) = Elems(dlq) \cup {Current(c)}
  BY <1>3, <1>4, ElemsConcat, ElemsAppend DEF QueuesOK
<1>6. QueuesOK'
  <2>1. unacked' \in [Consumers -> Seq(SentCopy)] /\ \A d \in Consumers : Len(unacked'[d]) <= Prefetch
    BY <1>2, <1>3, PrefetchAssumption, LenProperties DEF Settle, QueuesOK
  <2>. QED  BY <1>1, <1>5, <2>1 DEF Settle, QueuesOK, toolVars
<1>7. RestOK'
  BY DEF Settle, RestOK, toolVars
<1>8. StageOK'
  BY DEF Settle, RestOK, QueuesOK, StageOK, Current
<1>9. DeadOK'
  BY <1>5 DEF Settle, StageOK, DeadOK, toolVars
<1>. QED  BY <1>6, <1>7, <1>8, <1>9

LEMMA ConnectionLostShard ==
  ASSUME ShardInv, NEW c \in Consumers, ConnectionLost(c)
  PROVE  ShardInv'
<1>. USE DEF ShardInv
<1>1. SentCopy' = SentCopy
  BY DEF ConnectionLost, SentCopy
<1>2. unacked[c] \o main \in Seq(SentCopy)
  BY ElemsConcat DEF QueuesOK
<1>3. <<>> \in Seq(SentCopy) /\ Len(<<>>) = 0
  BY EmptySeq
<1>4. QueuesOK'
  BY <1>1, <1>2, <1>3, PrefetchAssumption DEF ConnectionLost, QueuesOK, toolVars
<1>5. RestOK'
  BY BoundsAssumption DEF ConnectionLost, RestOK, Disrupt, toolVars
<1>6. StageOK' /\ DeadOK'
  BY DEF ConnectionLost, QueuesOK, RestOK, StageOK, DeadOK, Current, toolVars
<1>. QED  BY <1>4, <1>5, <1>6

LEMMA StartShard ==
  ASSUME ShardInv, StartDrain \/ StartPurge
  PROVE  ShardInv'
<1>. USE DEF ShardInv
<1>1. SentCopy' = SentCopy
  BY DEF StartDrain, StartPurge, SentCopy
<1>2. Len(dlq) \in Nat /\ Ids(dlq) \subseteq sent
  <2>1. Elems(dlq) \subseteq SentCopy
    BY ElemsInSet DEF QueuesOK
  <2>. QED  BY <2>1, LenProperties DEF QueuesOK, Ids, SentCopy
<1>3. QueuesOK'
  BY <1>1 DEF StartDrain, StartPurge, QueuesOK, queueVars, consVars
<1>4. RestOK'
  BY <1>2, BoundsAssumption DEF StartDrain, StartPurge, RestOK, consVars
<1>5. StageOK' /\ DeadOK'
  BY DEF StartDrain, StartPurge, StageOK, DeadOK, Current, queueVars, consVars
<1>. QED  BY <1>3, <1>4, <1>5

LEMMA GetShard ==
  ASSUME ShardInv, Get
  PROVE  ShardInv'
<1>. USE DEF ShardInv
<1>1. SentCopy' = SentCopy
  BY DEF Get, SentCopy
<1>2. /\ Head(dlq) \in SentCopy /\ Tail(dlq) \in Seq(SentCopy)
      /\ Elems(dlq) = {Head(dlq)} \cup Elems(Tail(dlq))
  BY ElemsHeadTail DEF Get, QueuesOK
<1>3. got' \in Seq(SentCopy) /\ Len(got') = 1 /\ Elems(got') = {Head(dlq)}
  BY <1>2, ElemsSmall DEF Get
<1>4. QueuesOK'
  BY <1>1, <1>2, <1>3 DEF Get, QueuesOK, consVars
<1>5. RestOK'
  BY DEF Get, RestOK, consVars
<1>6. StageOK'
  BY DEF Get, StageOK, Current, consVars
<1>7. DeadOK'
  BY <1>2, <1>3 DEF Get, DeadOK
<1>. QED  BY <1>4, <1>5, <1>6, <1>7

\* Where a republished copy goes, q being the rest of the DLQ.
LEMMA Republished ==
  ASSUME ShardInv, NEW x \in SentCopy, NEW q \in Seq(SentCopy),
         Republish(x, q)
  PROVE  /\ main' \in Seq(SentCopy) /\ dlq' \in Seq(SentCopy)
         /\ Elems(dlq') \subseteq Elems(q) \cup {x}
         /\ Ids(main') \cup Ids(dlq') = Ids(main) \cup Ids(q) \cup {x.msg}
<1>1. main \in Seq(SentCopy)
  BY DEF ShardInv, QueuesOK
<1>2. CASE tool = "drain"
  <2>1. [x EXCEPT !.count = 0] \in SentCopy /\ [x EXCEPT !.count = 0].msg = x.msg
    BY MaxDeliveriesAssumption DEF SentCopy
  <2>2. PICK y \in SentCopy : y.msg = x.msg /\ main' = Append(main, y)
    BY <1>2, <2>1, Zenon DEF Republish
  <2>3. dlq' = q
    BY <1>2 DEF Republish
  <2>4. main' \in Seq(SentCopy) /\ Ids(main') = Ids(main) \cup {x.msg}
    BY <1>1, <2>2, ElemsAppend
  <2>. QED  BY <2>3, <2>4
<1>3. CASE tool # "drain"
  <2>1. main' = main /\ dlq' = Append(q, x)
    BY <1>3 DEF Republish
  <2>. QED  BY <1>1, <2>1, ElemsAppend
<1>. QED  BY <1>2, <1>3

LEMMA RepublishShard ==
  ASSUME ShardInv, RepublishConfirmed
  PROVE  ShardInv'
<1>. USE DEF ShardInv
<1>1. SentCopy' = SentCopy
  BY DEF RepublishConfirmed, SentCopy
<1>2. Head(got) \in SentCopy /\ Head(got) \in Elems(got)
  BY ElemsHeadTail DEF RepublishConfirmed, QueuesOK
<1>3. /\ main' \in Seq(SentCopy) /\ dlq' \in Seq(SentCopy)
      /\ Elems(dlq') \subseteq Elems(dlq) \cup {Head(got)}
  BY <1>2, Republished DEF RepublishConfirmed, QueuesOK
<1>4. QueuesOK'
  BY <1>1, <1>3 DEF RepublishConfirmed, QueuesOK, consVars
<1>5. RestOK'
  BY DEF RepublishConfirmed, RestOK, consVars
<1>6. StageOK'
  BY DEF RepublishConfirmed, StageOK, Current, consVars
<1>7. DeadOK'
  BY <1>2, <1>3 DEF RepublishConfirmed, DeadOK
<1>. QED  BY <1>4, <1>5, <1>6, <1>7

LEMMA AckGotShard ==
  ASSUME ShardInv, AckGot
  PROVE  ShardInv'
<1>. USE DEF ShardInv
<1>1. SentCopy' = SentCopy
  BY DEF AckGot, SentCopy
<1>2. <<>> \in Seq(SentCopy) /\ Len(<<>>) = 0
  BY EmptySeq
<1>3. Head(got) \in SentCopy
  BY ElemsHeadTail DEF AckGot, QueuesOK
<1>4. QueuesOK'
  BY <1>1, <1>2 DEF AckGot, QueuesOK, queueVars, consVars
<1>5. purged' \subseteq sent \cap Loadtest
  BY <1>3 DEF AckGot, RestOK, Removed, SentCopy
<1>6. RestOK'
  BY <1>5 DEF AckGot, RestOK, queueVars, consVars
<1>7. StageOK'
  BY DEF AckGot, StageOK, Current, queueVars, consVars
<1>8. DeadOK'
  BY ElemsSmall DEF AckGot, DeadOK, queueVars
<1>. QED  BY <1>4, <1>6, <1>7, <1>8

\* What the queues hold when a tool has ended early.
LEMMA Aborted ==
  ASSUME ShardInv, Abort
  PROVE  /\ main' \in Seq(SentCopy) /\ dlq' \in Seq(SentCopy)
         /\ Elems(dlq') \subseteq Elems(dlq) \cup Elems(got)
         /\ Ids(main) \cup Ids(dlq) \cup Ids(got) \subseteq Ids(main') \cup Ids(dlq')
<1>1. main \in Seq(SentCopy) /\ dlq \in Seq(SentCopy) /\ got \in Seq(SentCopy)
  BY DEF ShardInv, QueuesOK
<1>2. /\ got \o dlq \in Seq(SentCopy)
      /\ Elems(got \o dlq) = Elems(got) \cup Elems(dlq)
      /\ Ids(got \o dlq) = Ids(got) \cup Ids(dlq)
  BY <1>1, ElemsConcat
<1>3. CASE dlq' = got \o dlq /\ main' = main
  BY <1>1, <1>2, <1>3
<1>4. CASE got # <<>> /\ Republish(Head(got), got \o dlq)
  <2>1. Head(got) \in SentCopy /\ Head(got) \in Elems(got)
    BY <1>1, <1>4, ElemsHeadTail
  <2>2. /\ main' \in Seq(SentCopy) /\ dlq' \in Seq(SentCopy)
        /\ Elems(dlq') \subseteq Elems(got \o dlq) \cup {Head(got)}
        /\ Ids(main') \cup Ids(dlq') = Ids(main) \cup Ids(got \o dlq) \cup {Head(got).msg}
    BY <1>2, <1>4, <2>1, Republished
  <2>. QED  BY <1>2, <2>1, <2>2
<1>. QED  BY <1>3, <1>4 DEF Abort

LEMMA AbortShard ==
  ASSUME ShardInv, Abort
  PROVE  ShardInv'
<1>. USE DEF ShardInv
<1>1. SentCopy' = SentCopy
  BY DEF Abort, SentCopy
<1>2. <<>> \in Seq(SentCopy) /\ Len(<<>>) = 0
  BY EmptySeq
<1>3. QueuesOK'
  <2>1. /\ got' = <<>> /\ retry' = retry /\ unacked' = unacked
    BY DEF Abort, consVars
  <2>2. main' \in Seq(SentCopy) /\ dlq' \in Seq(SentCopy)
    BY Aborted
  <2>. QED  BY <1>1, <1>2, <2>1, <2>2 DEF QueuesOK
<1>4. RestOK'
  <2>1. /\ tool' = "none" /\ copied' = FALSE /\ quota' = 0 /\ unseen' = {}
        /\ stage' = stage /\ toolRuns' = toolRuns /\ purged' = purged
        /\ sent' = sent /\ processed' = processed
    BY DEF Abort, consVars
  <2>2. disruptions' \in 0..MaxDisruptions
    BY BoundsAssumption DEF Abort, RestOK, Disrupt
  <2>3. copied' \in BOOLEAN
    BY <2>1
  <2>. QED  BY <2>1, <2>2, <2>3 DEF RestOK
<1>5. StageOK'
  BY DEF Abort, StageOK, Current, consVars
<1>6. DeadOK'
  BY Aborted, ElemsSmall DEF Abort, DeadOK
<1>. QED  BY <1>3, <1>4, <1>5, <1>6

LEMMA IdleShard ==
  ASSUME ShardInv, Finish \/ UNCHANGED vars
  PROVE  ShardInv'
<1>. USE DEF ShardInv
<1>1. SentCopy' = SentCopy
  BY DEF Finish, SentCopy, vars
<1>2. QueuesOK'
  BY <1>1 DEF Finish, QueuesOK, queueVars, consVars, vars
<1>3. RestOK'
  BY DEF Finish, RestOK, consVars, vars
<1>4. StageOK' /\ DeadOK'
  BY DEF Finish, StageOK, DeadOK, Current, queueVars, consVars, vars
<1>. QED  BY <1>2, <1>3, <1>4

LEMMA ShardStep == ShardInv /\ [Next]_vars => ShardInv'
  BY PublishShard, DeliverShard, RetryExpiresShard, ExecuteShard, RequeueShard,
     SettleShard, ConnectionLostShard, StartShard, GetShard, RepublishShard,
     AckGotShard, AbortShard, IdleShard
  DEF Next, ConsumerStep, ToolStep

LEMMA ShardAlways == Spec => []ShardInv
  BY ShardInit, ShardStep, PTL DEF Spec

\* Every queue holds copies of messages that were sent with a retry count below
\* MAX_DELIVERIES, and no replica has more than PREFETCH_COUNT of them unacked.
THEOREM ShardTypeCorrect == Spec => []TypeOK
  BY ShardAlways, ShardTyped, PTL

\* README.md's table: only a message that has used up its deliveries, or whose
\* schema version is unknown, is dead-lettered; the purge, which puts messages
\* back into the DLQ, keeps it so.
THEOREM DeadLettersExhausted == Spec => []DeadLetteredExhausted
<1>1. ShardInv => DeadLetteredExhausted
  BY DEF ShardInv, DeadOK, Exhausted, DeadLetteredExhausted
<1>. QED  BY <1>1, ShardAlways, PTL

-----------------------------------------------------------------------------
(* No message is dropped. *)

\* What replica c holds and has not replaced by a copy, nor processed.
Unsettled(c) == IF stage[c] = "ack" THEN Tail(unacked[c]) ELSE unacked[c]

\* m was processed or purged, or a copy of it will not be acked away.
Covered(m) ==
  \/ m \in processed \cup purged
  \/ m \in Ids(main) \cup Ids(retry) \cup Ids(dlq)
  \/ ~copied /\ m \in Ids(got)
  \/ \E c \in Consumers : m \in Ids(Unsettled(c))

HeldInv == (got = <<>> => ~copied) /\ \A m \in sent : Covered(m)

\* What handle() holds of a delivery it has not settled.
LEMMA UnsettledIds ==
  ASSUME ShardInv, NEW c \in Consumers
  PROVE  /\ Ids(Unsettled(c)) \subseteq Ids(unacked[c])
         /\ stage[c] # "ack" => Ids(Unsettled(c)) = Ids(unacked[c])
         /\ unacked[c] # <<>> =>
              /\ Ids(unacked[c]) = {Current(c).msg} \cup Ids(Tail(unacked[c]))
              /\ stage[c] = "ack" => Ids(Unsettled(c)) = Ids(Tail(unacked[c]))
<1>1. unacked[c] \in Seq(SentCopy) /\ (stage[c] # "waiting" => unacked[c] # <<>>)
  BY DEF ShardInv, QueuesOK, StageOK
<1>2. unacked[c] # <<>> => Ids(unacked[c]) = {Current(c).msg} \cup Ids(Tail(unacked[c]))
  BY <1>1, ElemsHeadTail DEF Current
<1>. QED  BY <1>1, <1>2 DEF Unsettled

LEMMA HeldInit == Init => HeldInv
  BY DEF Init, HeldInv

LEMMA HeldPublish ==
  ASSUME ShardInv, HeldInv, NEW m \in Messages, Publish(m)
  PROVE  HeldInv'
<1>1. [msg |-> m, count |-> 0] \in Copy /\ [msg |-> m, count |-> 0].msg = m
  BY MaxDeliveriesAssumption DEF Copy
<1>2. main \in Seq(Copy)
  BY ShardTyped DEF TypeOK
<1>3. Ids(main') = Ids(main) \cup {m}
  BY <1>1, <1>2, ElemsAppend DEF Publish
<1>4. \A n \in sent : Covered(n)'
  BY <1>3 DEF Publish, HeldInv, Covered, Unsettled, consVars, toolVars
<1>5. Covered(m)'
  BY <1>3 DEF Covered
<1>. QED  BY <1>4, <1>5 DEF Publish, HeldInv, toolVars

LEMMA HeldDeliver ==
  ASSUME ShardInv, HeldInv, NEW c \in Consumers, Deliver(c)
  PROVE  HeldInv'
<1>1. main \in Seq(SentCopy) /\ main # <<>> /\ unacked \in [Consumers -> Seq(SentCopy)]
  BY DEF ShardInv, QueuesOK, Deliver
<1>2. Head(main) \in SentCopy /\ Ids(main) = {Head(main).msg} \cup Ids(Tail(main))
  BY <1>1, ElemsHeadTail
<1>3. unacked'[c] = Append(unacked[c], Head(main)) /\ main' = Tail(main)
  BY <1>1 DEF Deliver
<1>4. Ids(Unsettled(c)') = Ids(Unsettled(c)) \cup {Head(main).msg}
  <2>1. CASE stage[c] = "ack"
    <3>1. unacked[c] # <<>>
      BY <2>1 DEF ShardInv, StageOK
    <3>2. Tail(unacked[c]) \in Seq(SentCopy)
      BY <1>1, <3>1, ElemsHeadTail
    <3>3. Tail(Append(unacked[c], Head(main))) = Append(Tail(unacked[c]), Head(main))
      BY <1>1, <1>2, <3>1, HeadTailAppend
    <3>4. \A t \in Seq(SentCopy) : Ids(Append(t, Head(main))) = Ids(t) \cup {Head(main).msg}
      BY <1>2, ElemsAppend
    <3>5. Ids(Append(Tail(unacked[c]), Head(main))) = Ids(Tail(unacked[c])) \cup {Head(main).msg}
      BY <3>2, <3>4, Zenon
    <3>. QED  BY <1>3, <2>1, <3>3, <3>5 DEF Unsettled, Deliver
  <2>2. CASE stage[c] # "ack"
    <3>1. Ids(Append(unacked[c], Head(main))) = Ids(unacked[c]) \cup {Head(main).msg}
      BY <1>1, <1>2, ElemsAppend
    <3>. QED  BY <1>3, <2>2, <3>1 DEF Unsettled, Deliver
  <2>. QED  BY <2>1, <2>2
<1>5. \A d \in Consumers : d # c => Unsettled(d)' = Unsettled(d)
  BY <1>1 DEF Deliver, Unsettled
<1>6. ASSUME NEW m \in sent PROVE Covered(m)'
  <2>1. Ids(main) = {Head(main).msg} \cup Ids(main')
    BY <1>2, <1>3
  <2>2. CASE \E d \in Consumers : m \in Ids(Unsettled(d))
    BY <1>4, <1>5, <2>2 DEF Covered
  <2>3. CASE m \in Ids(main)
    BY <1>4, <2>1, <2>3 DEF Covered
  <2>. QED  BY <2>2, <2>3 DEF HeldInv, Covered, Deliver, toolVars
<1>. QED  BY <1>6 DEF HeldInv, Deliver, toolVars

LEMMA HeldRetryExpires ==
  ASSUME ShardInv, HeldInv, RetryExpires
  PROVE  HeldInv'
<1>1. main \in Seq(SentCopy) /\ retry \in Seq(SentCopy) /\ retry # <<>>
  BY DEF ShardInv, QueuesOK, RetryExpires
<1>2. Head(retry) \in SentCopy /\ Ids(retry) = {Head(retry).msg} \cup Ids(retry')
  BY <1>1, ElemsHeadTail DEF RetryExpires
<1>3. Ids(main') = Ids(main) \cup {Head(retry).msg}
  BY <1>1, <1>2, ElemsAppend DEF RetryExpires
<1>. QED  BY <1>2, <1>3 DEF RetryExpires, HeldInv, Covered, Unsettled, consVars, toolVars

LEMMA HeldExecute ==
  ASSUME ShardInv, HeldInv, NEW c \in Consumers, NEW ok \in BOOLEAN, Execute(c, ok)
  PROVE  HeldInv'
<1>1. OnFailure(Current(c)) # "ack"
  BY DEF OnFailure
<1>2. stage'[c] = (IF ok THEN "ack" ELSE OnFailure(Current(c))) /\ unacked' = unacked
  BY DEF Execute, ShardInv, RestOK
<1>3. stage[c] # "ack" /\ unacked[c] # <<>>
  BY DEF Execute
<1>4. Ids(Unsettled(c)) \subseteq Ids(Unsettled(c)') \cup processed'
  <2>1. CASE ok
    <3>1. Unsettled(c)' = Tail(unacked[c]) /\ Current(c).msg \in processed'
      BY <1>2, <2>1 DEF Unsettled, Execute
    <3>. QED  BY <1>3, <3>1, UnsettledIds
  <2>2. CASE ~ok
    BY <1>1, <1>2, <1>3, <2>2 DEF Unsettled
  <2>. QED  BY <2>1, <2>2
<1>5. \A d \in Consumers : d # c => Unsettled(d)' = Unsettled(d)
  BY DEF Execute, Unsettled, ShardInv, RestOK
<1>6. processed \subseteq processed'
  BY DEF Execute
<1>7. ASSUME NEW m \in sent PROVE Covered(m)'
  <2>1. CASE \E d \in Consumers : m \in Ids(Unsettled(d))
    BY <1>4, <1>5, <2>1 DEF Covered
  <2>2. CASE ~ \E d \in Consumers : m \in Ids(Unsettled(d))
    BY <1>6, <2>2 DEF HeldInv, Covered, Execute, queueVars, toolVars
  <2>. QED  BY <2>1, <2>2
<1>. QED  BY <1>7 DEF HeldInv, Execute, toolVars

LEMMA HeldRequeue ==
  ASSUME ShardInv, HeldInv, NEW c \in Consumers, Requeue(c) \/ RequeueFails(c)
  PROVE  HeldInv'
<1>1. /\ stage[c] = "retry" /\ unacked' = unacked
      /\ main' = main /\ dlq' = dlq /\ processed' = processed /\ sent' = sent
      /\ got' = got /\ copied' = copied /\ purged' = purged
  BY DEF Requeue, RequeueFails, toolVars
<1>2. unacked[c] # <<>>
  BY <1>1 DEF ShardInv, StageOK
<1>3. Ids(retry) \subseteq Ids(retry')
  BY <1>1, CopiedForRetry DEF Requeue, RequeueFails
<1>4. Ids(Unsettled(c)) \subseteq Ids(Unsettled(c)') \cup Ids(retry')
  <2>1. CASE Requeue(c)
    <3>1. Unsettled(c)' = Tail(unacked[c])
      BY <2>1 DEF Requeue, Unsettled, ShardInv, RestOK
    <3>2. Current(c).msg \in Ids(retry')
      BY <1>1, <2>1, CopiedForRetry DEF Requeue
    <3>. QED  BY <1>1, <1>2, <3>1, <3>2, UnsettledIds
  <2>2. CASE RequeueFails(c)
    BY <1>1, <2>2 DEF RequeueFails, Unsettled, ShardInv, RestOK
  <2>. QED  BY <2>1, <2>2
<1>5. \A d \in Consumers : d # c => Unsettled(d)' = Unsettled(d)
  BY DEF Requeue, RequeueFails, Unsettled, ShardInv, RestOK
<1>6. ASSUME NEW m \in sent PROVE Covered(m)'
  <2>1. CASE \E d \in Consumers : m \in Ids(Unsettled(d))
    BY <1>4, <1>5, <2>1 DEF Covered
  <2>2. CASE ~ \E d \in Consumers : m \in Ids(Unsettled(d))
    BY <1>1, <1>3, <2>2 DEF HeldInv, Covered
  <2>. QED  BY <2>1, <2>2
<1>. QED  BY <1>1, <1>6 DEF HeldInv

LEMMA HeldSettle ==
  ASSUME ShardInv, HeldInv, NEW c \in Consumers, Settle(c)
  PROVE  HeldInv'
<1>1. /\ unacked[c] \in Seq(SentCopy) /\ unacked[c] # <<>>
      /\ main \in Seq(SentCopy) /\ dlq \in Seq(SentCopy)
      /\ unacked \in [Consumers -> Seq(SentCopy)]
  BY DEF Settle, ShardInv, QueuesOK, StageOK
<1>2. Current(c) \in SentCopy
  BY <1>1, ElemsHeadTail DEF Current
<1>3. /\ Ids(<<Current(c)>> \o main) = {Current(c).msg} \cup Ids(main)
      /\ Ids(Append(dlq, Current(c))) = Ids(dlq) \cup {Current(c).msg}
  <2>1. <<Current(c)>> \in Seq(SentCopy)
    BY <1>2
  <2>2. Ids(<<Current(c)>> \o main) = Ids(<<Current(c)>>) \cup Ids(main)
    <3>1. \A t \in Seq(SentCopy) : Ids(t \o main) = Ids(t) \cup Ids(main)
      BY <1>1, ElemsConcat
    <3>. QED  BY <2>1, <3>1, Zenon
  <2>3. Ids(<<Current(c)>>) = {Current(c).msg}
    BY ElemsSmall, Zenon
  <2>4. Ids(Append(dlq, Current(c))) = Ids(dlq) \cup {Current(c).msg}
    BY <1>1, <1>2, ElemsAppend
  <2>. QED  BY <2>2, <2>3, <2>4
<1>4. Unsettled(c)' = Tail(unacked[c])
  BY <1>1 DEF Settle, Unsettled, ShardInv, RestOK
<1>5. /\ Ids(main) \subseteq Ids(main') /\ Ids(dlq) \subseteq Ids(dlq')
      /\ stage[c] # "ack" => Current(c).msg \in Ids(main') \cup Ids(dlq')
  BY <1>3 DEF Settle
<1>6. Ids(Unsettled(c)) \subseteq Ids(Unsettled(c)') \cup Ids(main') \cup Ids(dlq')
  BY <1>1, <1>4, <1>5, UnsettledIds
<1>7. \A d \in Consumers : d # c => Unsettled(d)' = Unsettled(d)
  BY <1>1 DEF Settle, Unsettled, ShardInv, RestOK
<1>8. ASSUME NEW m \in sent PROVE Covered(m)'
  <2>1. CASE \E d \in Consumers : m \in Ids(Unsettled(d))
    BY <1>6, <1>7, <2>1 DEF Covered
  <2>2. CASE ~ \E d \in Consumers : m \in Ids(Unsettled(d))
    BY <1>5, <2>2 DEF HeldInv, Covered, Settle, toolVars
  <2>. QED  BY <2>1, <2>2
<1>. QED  BY <1>8 DEF HeldInv, Settle, toolVars

LEMMA HeldConnectionLost ==
  ASSUME ShardInv, HeldInv, NEW c \in Consumers, ConnectionLost(c)
  PROVE  HeldInv'
<1>1. unacked \in [Consumers -> Seq(SentCopy)] /\ main \in Seq(SentCopy)
  BY DEF ShardInv, QueuesOK
<1>2. Ids(main') = Ids(unacked[c]) \cup Ids(main)
  BY <1>1, ElemsConcat DEF ConnectionLost
<1>3. \A d \in Consumers : d # c => Unsettled(d)' = Unsettled(d)
  BY <1>1 DEF ConnectionLost, Unsettled, ShardInv, RestOK
<1>4. ASSUME NEW m \in sent PROVE Covered(m)'
  <2>1. CASE \E d \in Consumers : m \in Ids(Unsettled(d))
    BY <1>2, <1>3, <2>1, UnsettledIds DEF Covered
  <2>2. CASE ~ \E d \in Consumers : m \in Ids(Unsettled(d))
    BY <1>2, <2>2 DEF HeldInv, Covered, ConnectionLost, toolVars
  <2>. QED  BY <2>1, <2>2
<1>. QED  BY <1>4 DEF HeldInv, ConnectionLost, toolVars

LEMMA HeldGet ==
  ASSUME ShardInv, HeldInv, Get
  PROVE  HeldInv'
<1>1. Ids(dlq) = {Head(dlq).msg} \cup Ids(dlq')
  BY ElemsHeadTail DEF Get, ShardInv, QueuesOK
<1>2. Ids(got') = {Head(dlq).msg} /\ got' # <<>> /\ ~copied'
  BY ElemsSmall DEF Get, HeldInv
<1>3. got = <<>> /\ Ids(got) = {}
  BY ElemsSmall DEF Get
<1>. QED  BY <1>1, <1>2, <1>3 DEF Get, HeldInv, Covered, Unsettled, consVars

LEMMA HeldRepublish ==
  ASSUME ShardInv, HeldInv, RepublishConfirmed
  PROVE  HeldInv'
<1>1. /\ got \in Seq(SentCopy) /\ got # <<>> /\ dlq \in Seq(SentCopy)
      /\ Len(got) <= 1
  BY DEF ShardInv, QueuesOK, RepublishConfirmed
<1>2. Head(got) \in SentCopy /\ Ids(got) = {Head(got).msg}
  BY <1>1, ElemsSingle
<1>3. Ids(main') \cup Ids(dlq') = Ids(main) \cup Ids(dlq) \cup Ids(got)
  BY <1>1, <1>2, Republished DEF RepublishConfirmed
<1>. QED  BY <1>1, <1>3 DEF RepublishConfirmed, HeldInv, Covered, Unsettled, consVars

LEMMA HeldAckGot ==
  ASSUME ShardInv, HeldInv, AckGot
  PROVE  HeldInv'
<1>1. /\ got \in Seq(SentCopy) /\ got # <<>> /\ Len(got) <= 1
  BY DEF ShardInv, QueuesOK, AckGot
<1>2. copied \/ Ids(got) \subseteq purged'
  BY <1>1, ElemsSingle DEF AckGot
<1>3. purged \subseteq purged' /\ ~copied'
  BY DEF AckGot
<1>. QED  BY <1>2, <1>3 DEF AckGot, HeldInv, Covered, Unsettled, queueVars, consVars

LEMMA HeldAbort ==
  ASSUME ShardInv, HeldInv, Abort
  PROVE  HeldInv'
<1>1. Ids(main) \cup Ids(dlq) \cup Ids(got) \subseteq Ids(main') \cup Ids(dlq')
  BY Aborted
<1>2. /\ retry' = retry /\ unacked' = unacked /\ stage' = stage /\ ~copied'
      /\ purged' = purged /\ sent' = sent /\ processed' = processed
  BY DEF Abort, consVars
<1>. QED  BY <1>1, <1>2 DEF HeldInv, Covered, Unsettled

LEMMA HeldIdle ==
  ASSUME HeldInv, StartDrain \/ StartPurge \/ Finish \/ UNCHANGED vars
  PROVE  HeldInv'
<1>1. UNCHANGED <<main, retry, dlq, unacked, stage, got, copied, purged, sent, processed>>
  BY DEF StartDrain, StartPurge, Finish, queueVars, consVars, vars
<1>. QED  BY <1>1 DEF HeldInv, Covered, Unsettled

LEMMA HeldStep == ShardInv /\ HeldInv /\ [Next]_vars => HeldInv'
  BY HeldPublish, HeldDeliver, HeldRetryExpires, HeldExecute, HeldRequeue,
     HeldSettle, HeldConnectionLost, HeldGet, HeldRepublish, HeldAckGot,
     HeldAbort, HeldIdle
  DEF Next, ConsumerStep, ToolStep

\* No interleaving of replicas, lost connections, unconfirmed copies, drains and
\* purges drops a message: each one the relay handed over is processed, purged
\* as a loadtest message, or still held somewhere.
THEOREM NothingDropped == Spec => []MessageKept
<1>1. ShardInv /\ HeldInv => MessageKept
  <2>. SUFFICES ASSUME ShardInv, HeldInv, NEW m \in sent
                PROVE  m \in processed \cup purged \cup InUse
    BY DEF MessageKept
  <2>1. Covered(m)
    BY DEF HeldInv
  <2>. QED  BY <2>1, UnsettledIds DEF Covered, InUse
<1>. QED  BY <1>1, ShardAlways, HeldInit, HeldStep, PTL DEF Spec

-----------------------------------------------------------------------------
(* A purge sees the whole DLQ.  Its scan is bounded by a count, not by the   *)
(* messages: what it has yet to see lies within the first `quota` places,    *)
(* because every copy that comes in, those it keeps included, goes to the    *)
(* back.                                                                     *)

ScanInv ==
  tool = "purge" =>
    /\ quota <= Len(dlq)
    /\ \A m \in unseen : \E i \in 1..quota : dlq[i].msg = m

\* What comes in at the back leaves the front as it is.
LEMMA ScanAppend ==
  ASSUME ShardInv, ScanInv, UNCHANGED <<tool, quota, unseen>>,
         NEW x \in SentCopy, dlq' = Append(dlq, x)
  PROVE  ScanInv'
<1>1. /\ Len(dlq) \in Nat /\ Len(dlq') = Len(dlq) + 1
      /\ \A i \in 1..Len(dlq) : dlq'[i] = dlq[i]
  BY AppendProperties, LenProperties DEF ShardInv, QueuesOK
<1>2. quota \in Nat
  BY DEF ShardInv, RestOK
<1>. QED  BY <1>1, <1>2 DEF ScanInv

LEMMA ScanKept ==
  ASSUME ScanInv, UNCHANGED <<tool, quota, unseen, dlq>>
  PROVE  ScanInv'
BY DEF ScanInv

LEMMA ScanStart ==
  ASSUME ShardInv, StartPurge
  PROVE  ScanInv'
<1>1. quota' = Len(dlq) /\ unseen' = Ids(dlq) /\ dlq' = dlq
  BY DEF StartPurge, queueVars
<1>2. Len(dlq) \in Nat /\ DOMAIN dlq = 1..Len(dlq)
  BY LenProperties DEF ShardInv, QueuesOK
<1>. QED  BY <1>1, <1>2 DEF ScanInv, Ids, Elems

LEMMA ScanGet ==
  ASSUME ShardInv, ScanInv, Get
  PROVE  ScanInv'
<1>. SUFFICES ASSUME tool = "purge"
              PROVE  /\ quota' <= Len(dlq')
                     /\ \A m \in unseen' : \E i \in 1..quota' : dlq'[i].msg = m
  BY DEF Get, ScanInv
<1>1. /\ dlq' = Tail(dlq) /\ quota' = quota - 1 /\ quota > 0 /\ quota \in Nat
      /\ unseen' = unseen \ {Head(dlq).msg}
  BY DEF Get, ShardInv, RestOK
<1>2. /\ Len(dlq) \in Nat /\ Len(dlq') = Len(dlq) - 1 /\ Head(dlq) = dlq[1]
      /\ \A i \in 1..Len(dlq') : dlq'[i] = dlq[i + 1]
  BY <1>1, HeadTailProperties, LenProperties DEF Get, ShardInv, QueuesOK
<1>3. ASSUME NEW m \in unseen'
      PROVE  \E i \in 1..quota' : dlq'[i].msg = m
  <2>1. PICK i \in 1..quota : dlq[i].msg = m
    BY <1>1 DEF ScanInv
  <2>2. i # 1
    BY <1>1, <1>2, <2>1
  <2>3. i - 1 \in 1..quota' /\ i - 1 \in 1..Len(dlq') /\ (i - 1) + 1 = i
    BY <1>1, <1>2, <2>2 DEF ScanInv
  <2>4. dlq'[i - 1] = dlq[i]
    BY <1>2, <2>3
  <2>. QED  BY <2>1, <2>3, <2>4
<1>. QED  BY <1>1, <1>2, <1>3 DEF ScanInv

LEMMA ScanStep ==
  ASSUME ShardInv, ScanInv, [Next]_vars
  PROVE  ScanInv'
<1>1. ASSUME NEW c \in Consumers, Settle(c)
      PROVE  ScanInv'
  <2>1. UNCHANGED <<tool, quota, unseen>>
    BY <1>1 DEF Settle, toolVars
  <2>2. CASE stage[c] = "reject"
    <3>1. Current(c) \in SentCopy
      BY <2>2, ElemsHeadTail DEF ShardInv, StageOK, QueuesOK, Current
    <3>2. dlq' = Append(dlq, Current(c))
      BY <1>1, <2>2 DEF Settle
    <3>. QED  BY <2>1, <3>1, <3>2, ScanAppend
  <2>3. CASE stage[c] # "reject"
    <3>1. dlq' = dlq
      BY <1>1, <2>3 DEF Settle
    <3>. QED  BY <2>1, <3>1, ScanKept
  <2>. QED  BY <2>2, <2>3
<1>2. CASE RepublishConfirmed
  <2>1. UNCHANGED <<tool, quota, unseen>>
    BY <1>2 DEF RepublishConfirmed
  <2>2. CASE tool = "purge"
    <3>1. Head(got) \in SentCopy
      BY <1>2, ElemsHeadTail DEF RepublishConfirmed, ShardInv, QueuesOK
    <3>2. dlq' = Append(dlq, Head(got))
      BY <1>2, <2>2 DEF RepublishConfirmed, Republish
    <3>. QED  BY <2>1, <3>1, <3>2, ScanAppend
  <2>. QED  BY <2>1, <2>2 DEF ScanInv
<1>3. CASE StartDrain \/ Abort \/ Finish
  BY <1>3 DEF StartDrain, Abort, Finish, ScanInv
<1>4. ASSUME NEW c \in Consumers,
             \/ Deliver(c) \/ \E ok \in BOOLEAN : Execute(c, ok)
             \/ Requeue(c) \/ RequeueFails(c) \/ ConnectionLost(c)
      PROVE  ScanInv'
  BY <1>4, ScanKept DEF Deliver, Execute, Requeue, RequeueFails, ConnectionLost, toolVars, queueVars
<1>5. ASSUME NEW m \in Messages, Publish(m)
      PROVE  ScanInv'
  BY <1>5, ScanKept DEF Publish, toolVars
<1>6. CASE RetryExpires \/ AckGot \/ UNCHANGED vars
  BY <1>6, ScanKept DEF RetryExpires, AckGot, toolVars, queueVars, vars
<1>. QED  BY <1>1, <1>2, <1>3, <1>4, <1>5, <1>6, ScanStart, ScanGet
          DEF Next, ConsumerStep, ToolStep

\* However many messages the purge keeps and sends round to the back, and
\* whatever is dead-lettered meanwhile, a purge that is not cut short has looked
\* at every message that was in the DLQ when it started.
THEOREM PurgeSeesAll == Spec => PurgeScansAll
<1>. DEFINE Ends == tool = "purge" /\ tool' = "none" /\ disruptions' = disruptions
<1>1. ASSUME ShardInv, ScanInv, [Next]_vars, Ends
      PROVE  unseen = {}
  <2>1. CASE Finish
    <3>1. quota <= 0
      BY <1>1, <2>1, EmptySeq DEF Finish, ScanInv, ShardInv, RestOK
    <3>. QED  BY <1>1, <3>1 DEF ScanInv, ShardInv, RestOK
  <2>2. CASE Abort
    BY <1>1, <2>2 DEF Abort, Disrupt, ShardInv, RestOK
  <2>3. CASE ~Finish /\ ~Abort
    BY <1>1, <2>3
       DEF Next, ConsumerStep, ToolStep, Publish, RetryExpires, Deliver, Execute, Requeue, Settle,
           RequeueFails, ConnectionLost, StartDrain, StartPurge, Get, RepublishConfirmed, AckGot,
           toolVars, vars
  <2>. QED  BY <2>1, <2>2, <2>3
<1>2. ShardInv /\ ScanInv /\ [Next]_vars => ScanInv'
  BY ScanStep
<1>3. ShardInv /\ ScanInv /\ [Next]_vars => [Ends => unseen = {}]_vars
  BY <1>1
<1>4. Init => ScanInv
  BY DEF Init, ScanInv
<1>. QED  BY <1>2, <1>3, <1>4, ShardAlways, PTL DEF Spec, PurgeScansAll

=============================================================================
