---------------------- MODULE TicketNotificationProofs ----------------------
(***************************************************************************)
(* Proofs about TicketNotification: what Backoff returns in integers that  *)
(* overflow and that rows wait on its schedule; that the table and its     *)
(* senders implement at-least-once delivery; and how many duplicates they  *)
(* send at most, which takes a budget: every email still to come for a     *)
(* row belongs to a sender that holds it, and nobody joins them once the   *)
(* row is marked.                                                          *)
(***************************************************************************)
EXTENDS TicketNotification, FiniteSetTheorems, WellFoundedInduction, TLAPS

(* What Backoff returns, for every width, base, cap and count. *)

\* What induction comes to here: take the least counterexample.
LEMMA Least ==
  ASSUME NEW T \in SUBSET Nat, T # {}
  PROVE  \E x \in T : \A y \in T : x <= y
<1>1. IsWellFoundedOn(OpToRel(<, Nat), Nat)
  BY NatLessThanWellFounded
<1>2. PICK x \in T : \A y \in T : ~(<<y, x>> \in OpToRel(<, Nat))
  BY <1>1, WFMin
<1>3. \A y \in T : ~(y < x)
  BY <1>2 DEF OpToRel
<1>. QED  BY <1>3

LEMMA PowersPositive == \A k \in 0..Width : 2^k \in Nat /\ 2^k >= 1
<1>. DEFINE T == {k \in 0..Width : ~(2^k \in Nat /\ 2^k >= 1)}
<1>1. SUFFICES ASSUME T # {} PROVE FALSE
  OBVIOUS
<1>2. PICK k \in T : \A j \in T : k <= j
  <2>1. T \in SUBSET Nat
    BY WidthAssumption
  <2>. HIDE DEF T
  <2>. QED  BY <1>1, <2>1, Least
<1>3. k # 0
  BY <1>2, WidthAssumption, PowersAssumption
<1>4. k - 1 \in 0..Width - 1 /\ k - 1 \notin T
  BY <1>2, <1>3, WidthAssumption
<1>5. 2^(k - 1) \in Nat /\ 2^(k - 1) >= 1
  BY <1>4, WidthAssumption
<1>6. 2^k = 2 * 2^(k - 1)
  BY <1>3, WidthAssumption, PowersAssumption
<1>. QED  BY <1>5, <1>6

LEMMA PowersGrow == \A j \in 0..Width : \A k \in j..Width : 2^j <= 2^k
<1>. SUFFICES ASSUME NEW j \in 0..Width
              PROVE  \A k \in j..Width : 2^j <= 2^k
  OBVIOUS
<1>. DEFINE T == {k \in j..Width : ~(2^j <= 2^k)}
<1>1. SUFFICES ASSUME T # {} PROVE FALSE
  OBVIOUS
<1>2. PICK k \in T : \A i \in T : k <= i
  <2>1. T \in SUBSET Nat
    BY WidthAssumption
  <2>. HIDE DEF T
  <2>. QED  BY <1>1, <2>1, Least
<1>3. k # j
  BY <1>2, WidthAssumption, PowersPositive
<1>4. k - 1 \in j..Width /\ k - 1 \in 0..Width - 1 /\ k - 1 \notin T
  BY <1>2, <1>3, WidthAssumption
<1>5. 2^j <= 2^(k - 1)
  BY <1>4
<1>6. 2^k = 2 * 2^(k - 1)
  BY <1>3, WidthAssumption, PowersAssumption
<1>7. 2^(k - 1) \in Nat /\ 2^j \in Nat
  BY <1>4, WidthAssumption, PowersPositive
<1>. QED  BY <1>5, <1>6, <1>7

\* Wrapping yields an integer, whatever overflowed.
LEMMA WrapInteger ==
  ASSUME NEW n \in Int
  PROVE  Wrap(n) \in Int
<1>1. 2^Width \in Nat \ {0} /\ 2^(Width - 1) \in Nat
  <2>1. Width \in 0..Width /\ Width - 1 \in 0..Width
    BY WidthAssumption
  <2>. QED  BY <2>1, PowersPositive
<1>2. n % 2^Width \in Int
  BY <1>1
<1>. QED  BY <1>1, <1>2 DEF Wrap

\* The count used as a shift stays in the range the shift is defined on.
LEMMA ShiftInRange ==
  ASSUME NEW n \in Int
  PROVE  Shift(n) \in 0..MaxShift
BY WidthAssumption DEF Shift, MaxShift

\* With a positive cap, which both repositories' constructors make sure of, the
\* ceiling lies between 1 and the cap: no overflow of the product escapes.
THEOREM CeilingInRange ==
  ASSUME NEW n \in Int, NEW base \in Int, NEW cap \in Nat \ {0}
  PROVE  Ceiling(n, base, cap) \in 1..cap
<1>1. Shift(n) \in 0..Width
  BY ShiftInRange, WidthAssumption DEF MaxShift
<1>2. 2^Shift(n) \in Nat
  BY <1>1, PowersPositive
<1>3. base * 2^Shift(n) \in Int
  BY <1>2
<1>4. Wrap(base * 2^Shift(n)) \in Int
  BY <1>3, WrapInteger
<1>. QED  BY <1>4 DEF Ceiling

\* Backoff always returns a delay, at least 1 and at most the cap: a retry is
\* never due at once and never later than the cap (internal/domain/backoff.go).
THEOREM BackoffInRange ==
  ASSUME NEW n \in Int, NEW base \in Int, NEW cap \in Nat \ {0}
  PROVE  BackoffDelays(n, base, cap) # {} /\ BackoffDelays(n, base, cap) \subseteq 1..cap
<1>1. Ceiling(n, base, cap) \in 1..cap
  BY CeilingInRange
<1>2. BackoffDelays(n, base, cap) = 1..Ceiling(n, base, cap)
  BY <1>1 DEF BackoffDelays
<1>. QED  BY <1>1, <1>2

-----------------------------------------------------------------------------
(* Types. *)

\* The values a sender's part of the state takes, kept apart so that an action
\* that leaves it alone is dismissed at once.
SenderOK ==
  /\ pc \in [Senders -> {"idle", "fetching", "sending", "accepted", "refused", "counted"}]
  /\ todo \in [Senders -> SUBSET Tickets]
  /\ counted \in [Senders -> 0..MaxShift]
  /\ cancelled \subseteq Senders
RowOK ==
  /\ row \in [Tickets -> {"absent", "pending", "sent"}]
  /\ attempts \in [Tickets -> 0..MaxShift]
  /\ wait \in [Tickets -> 0..Cap]
  /\ mails \in [Tickets -> Nat]

LEMMA DisruptType ==
  ASSUME disruptions \in 0..MaxDisruptions, Disrupt \/ UNCHANGED disruptions
  PROVE  disruptions' \in 0..MaxDisruptions
BY DisruptionsAssumption DEF Disrupt

LEMMA AdvanceType ==
  ASSUME SenderOK, NEW s \in Senders, NEW t \in Tickets, Advance(s, t)
  PROVE  SenderOK'
<1>1. 0 \in 0..MaxShift
  BY WidthAssumption DEF MaxShift
<1>. QED  BY <1>1 DEF SenderOK, Advance

\* A recorded failure keeps the row's values in range, whatever was counted.
LEMMA MarkFailedType ==
  ASSUME RowOK, SenderOK, NEW s \in Senders, NEW t \in Tickets, MarkFailed(s, t)
  PROVE  RowOK'
<1>1. MaxShift \in Nat /\ attempts[t] + 1 \in Int /\ counted[s] + 1 \in Int
  BY WidthAssumption DEF RowOK, SenderOK, MaxShift
<1>2. Shift(attempts[t] + 1) \in 0..MaxShift
  BY <1>1, ShiftInRange
<1>3. BackoffDelays(counted[s] + 1, Base, Cap) \subseteq 1..Cap
  <2>1. Base \in Int /\ Cap \in Nat \ {0}
    BY DelayAssumption
  <2>. QED  BY <1>1, <2>1, BackoffInRange, Zenon
<1>4. attempts' \in [Tickets -> 0..MaxShift]
  BY <1>2 DEF MarkFailed, RowOK
<1>5. wait' \in [Tickets -> 0..Cap]
  BY <1>3, DelayAssumption DEF MarkFailed, RowOK
<1>. QED  BY <1>4, <1>5 DEF MarkFailed, RowOK

LEMMA TypeInit == Init => TypeOK
BY WidthAssumption, DelayAssumption, DisruptionsAssumption DEF Init, TypeOK, MaxShift

LEMMA SendStepType ==
  ASSUME TypeOK, NEW s \in Senders, NEW t \in Tickets,
         \/ Accepted(s, t) \/ Refused(s, t) \/ AcceptedUnnoticed(s, t)
         \/ MarkSent(s, t) \/ CountAttempts(s, t) \/ MarkFailed(s, t) \/ MarkLost(s, t)
         \/ SkipTicket(s, t)
  PROVE  TypeOK'
<1>. SUFFICES RowOK' /\ SenderOK' /\ disruptions' \in 0..MaxDisruptions
  BY DEF TypeOK, RowOK, SenderOK
<1>0. RowOK /\ SenderOK /\ disruptions \in 0..MaxDisruptions
  BY DEF TypeOK, RowOK, SenderOK
<1>. USE <1>0
<1>1. CASE Accepted(s, t)
  BY <1>1 DEF Accepted, RowOK, SenderOK, rowVars
<1>2. CASE Refused(s, t)
  <2>1. disruptions' \in 0..MaxDisruptions
    BY <1>2, DisruptType DEF Refused
  <2>. QED  BY <1>2, <2>1 DEF Refused, RowOK, SenderOK, rowVars
<1>3. CASE AcceptedUnnoticed(s, t)
  <2>1. disruptions' \in 0..MaxDisruptions
    BY <1>3, DisruptType DEF AcceptedUnnoticed
  <2>. QED  BY <1>3, <2>1 DEF AcceptedUnnoticed, RowOK, SenderOK, rowVars
<1>4. CASE MarkSent(s, t)
  <2>1. SenderOK'
    BY <1>4, AdvanceType DEF MarkSent
  <2>. QED  BY <1>4, <2>1, DelayAssumption DEF MarkSent, RowOK
<1>5. CASE CountAttempts(s, t)
  BY <1>5 DEF CountAttempts, RowOK, SenderOK, rowVars
<1>6. CASE MarkFailed(s, t)
  <2>1. SenderOK' /\ RowOK'
    BY <1>6, AdvanceType, MarkFailedType DEF MarkFailed
  <2>. QED  BY <1>6, <2>1 DEF MarkFailed
<1>7. CASE MarkLost(s, t) \/ SkipTicket(s, t)
  <2>1. SenderOK'
    BY <1>7, AdvanceType DEF MarkLost, SkipTicket
  <2>2. disruptions' \in 0..MaxDisruptions
    BY <1>7, DisruptType DEF MarkLost, SkipTicket
  <2>. QED  BY <1>7, <2>1, <2>2 DEF MarkLost, SkipTicket, RowOK, rowVars
<1>. QED  BY <1>1, <1>2, <1>3, <1>4, <1>5, <1>6, <1>7

LEMMA TypeStep == TypeOK /\ [Next]_vars => TypeOK'
<1>. SUFFICES ASSUME TypeOK, [Next]_vars PROVE TypeOK'
  OBVIOUS
<1>1. CASE Tick
  BY <1>1, DelayAssumption DEF Tick, TypeOK, senderVars
<1>2. ASSUME NEW w \in Workers, NEW t \in Tickets, IssueTickets(w, OrderOf[t])
      PROVE  TypeOK'
  BY <1>2 DEF IssueTickets, TypeOK, Senders
<1>3. ASSUME NEW c \in Crons, FetchPendingForRetry(c)
      PROVE  TypeOK'
  <2>1. Due \subseteq Tickets
    BY DEF Due
  <2>2. disruptions' \in 0..MaxDisruptions
    BY <1>3, DisruptType DEF FetchPendingForRetry, TypeOK
  <2>. QED  BY <1>3, <2>1, <2>2 DEF FetchPendingForRetry, TypeOK, Senders, rowVars
<1>4. ASSUME NEW c \in Crons, FetchCommits(c)
      PROVE  TypeOK'
  BY <1>4 DEF FetchCommits, TypeOK, Senders, rowVars
<1>5. ASSUME NEW s \in Senders, SendStep(s) \/ \E t \in Tickets : SkipTicket(s, t)
      PROVE  TypeOK'
  BY <1>5, SendStepType DEF SendStep
<1>6. ASSUME NEW s \in Senders, Cancel(s)
      PROVE  TypeOK'
  BY <1>6, DisruptType DEF Cancel, TypeOK, rowVars
<1>7. ASSUME NEW s \in Senders, Crash(s)
      PROVE  TypeOK'
  <2>1. 0 \in 0..MaxShift
    BY WidthAssumption DEF MaxShift
  <2>. QED  BY <1>7, <2>1, DisruptType DEF Crash, TypeOK, rowVars
<1>8. CASE UNCHANGED vars
  BY <1>8 DEF vars, TypeOK
<1>. QED  BY <1>1, <1>2, <1>3, <1>4, <1>5, <1>6, <1>7, <1>8 DEF Next, CronStep, Senders

\* Type correctness of the notifications: in particular no delay leaves 0..Cap,
\* whatever the count, the base and the width of the integers.
THEOREM NotificationTypes == Spec => []TypeOK
BY TypeInit, TypeStep, PTL DEF Spec

-----------------------------------------------------------------------------
(* The inductive invariant behind the refinement. *)

\* Only issued tickets are ever on a sender's list.
ListedIssued == \A s \in Senders : \A t \in todo[s] : row[t] # "absent"

\* A sender about to mark a ticket sent has had its email accepted.
AcceptedMailed ==
  \A s \in Senders, t \in Tickets : pc[s] = "accepted" /\ IsNext(s, t) => mails[t] > 0

\* A row marked sent has been emailed.
SentMailed == \A t \in Tickets : row[t] = "sent" => mails[t] > 0

MailInv == TypeOK /\ ListedIssued /\ AcceptedMailed /\ SentMailed

LEMMA MailInit == Init => MailInv
BY TypeInit DEF Init, MailInv, ListedIssued, AcceptedMailed, SentMailed

\* The tickets a sender lists only shrink while it sends, and an email is
\* never taken back.
LEMMA SendKeeps ==
  ASSUME MailInv, TypeOK', NEW s \in Senders, NEW t \in Tickets,
         \/ Accepted(s, t) \/ Refused(s, t) \/ AcceptedUnnoticed(s, t)
         \/ MarkSent(s, t) \/ CountAttempts(s, t) \/ MarkFailed(s, t) \/ MarkLost(s, t)
         \/ SkipTicket(s, t)
  PROVE  ListedIssued' /\ AcceptedMailed' /\ SentMailed'
<1>. USE DEF MailInv, TypeOK
<1>1. CASE Accepted(s, t) \/ AcceptedUnnoticed(s, t)
  <2>1. mails' = [mails EXCEPT ![t] = @ + 1] /\ row' = row /\ todo' = todo
    BY <1>1 DEF Accepted, AcceptedUnnoticed, rowVars
  <2>2. \A u \in Tickets : mails[u] > 0 => mails'[u] > 0
    BY <2>1
  <2>3. ListedIssued' /\ SentMailed'
    BY <2>1, <2>2 DEF ListedIssued, SentMailed
  <2>4. ASSUME NEW p \in Senders, NEW u \in Tickets, pc'[p] = "accepted", IsNext(p, u)'
        PROVE  mails'[u] > 0
    <3>1. CASE p = s
      <4>1. IsNext(s, t) /\ IsNext(s, u)
        BY <1>1, <2>1, <2>4, <3>1 DEF CanSend, IsNext, Accepted, AcceptedUnnoticed
      <4>2. u = t
        BY <4>1, TicketsAssumption DEF IsNext
      <4>. QED  BY <4>2, <2>1
    <3>2. CASE p # s
      BY <1>1, <2>1, <2>2, <2>4, <3>2
         DEF AcceptedMailed, IsNext, Accepted, AcceptedUnnoticed
    <3>. QED  BY <3>1, <3>2
  <2>. QED  BY <2>3, <2>4 DEF AcceptedMailed
<1>2. CASE Refused(s, t) \/ CountAttempts(s, t)
  BY <1>2 DEF Refused, CountAttempts, ListedIssued, AcceptedMailed, SentMailed, IsNext, rowVars
<1>3. CASE MarkSent(s, t) \/ MarkFailed(s, t) \/ MarkLost(s, t) \/ SkipTicket(s, t)
  <2>1. Advance(s, t) /\ mails' = mails
    BY <1>3 DEF MarkSent, MarkFailed, MarkLost, SkipTicket
  <2>2. AcceptedMailed'
    BY <2>1 DEF Advance, AcceptedMailed, IsNext
  <2>3. \A u \in Tickets : row'[u] = row[u] \/ (u = t /\ MarkSent(s, t) /\ row'[u] = "sent")
    BY <1>3 DEF MarkSent, MarkFailed, MarkLost, SkipTicket, rowVars
  <2>4. MarkSent(s, t) => mails[t] > 0
    BY DEF AcceptedMailed, MarkSent
  <2>5. SentMailed'
    BY <2>1, <2>3, <2>4 DEF SentMailed
  <2>6. ListedIssued'
    BY <2>1, <2>3 DEF Advance, ListedIssued
  <2>. QED  BY <2>2, <2>5, <2>6
<1>. QED  BY <1>1, <1>2, <1>3

LEMMA MailStep == MailInv /\ [Next]_vars => MailInv'
<1>. SUFFICES ASSUME MailInv, [Next]_vars PROVE MailInv'
  OBVIOUS
<1>0. TypeOK'
  BY TypeStep DEF MailInv
<1>. USE <1>0 DEF MailInv, TypeOK, ListedIssued, AcceptedMailed, SentMailed, IsNext
<1>1. CASE Tick
  BY <1>1 DEF Tick, senderVars
<1>2. ASSUME NEW w \in Workers, NEW t \in Tickets, IssueTickets(w, OrderOf[t])
      PROVE  MailInv'
  BY <1>2 DEF IssueTickets, Senders
<1>3. ASSUME NEW c \in Crons, FetchPendingForRetry(c)
      PROVE  MailInv'
  <2>1. \A t \in Due : row[t] # "absent"
    BY DEF Due
  <2>. QED  BY <1>3, <2>1 DEF FetchPendingForRetry, Senders, rowVars
<1>4. ASSUME NEW c \in Crons, FetchCommits(c)
      PROVE  MailInv'
  BY <1>4 DEF FetchCommits, Senders, rowVars
<1>5. ASSUME NEW s \in Senders, SendStep(s) \/ \E t \in Tickets : SkipTicket(s, t)
      PROVE  MailInv'
  BY <1>5, SendKeeps DEF SendStep
<1>6. ASSUME NEW s \in Senders, Cancel(s)
      PROVE  MailInv'
  BY <1>6 DEF Cancel, rowVars
<1>7. ASSUME NEW s \in Senders, Crash(s)
      PROVE  MailInv'
  BY <1>7 DEF Crash, rowVars
<1>8. CASE UNCHANGED vars
  BY <1>8 DEF vars
<1>. QED  BY <1>1, <1>2, <1>3, <1>4, <1>5, <1>6, <1>7, <1>8 DEF Next, CronStep, Senders

-----------------------------------------------------------------------------
(* The refinement. *)

Issued  == {t \in Tickets : row[t] # "absent"}
Mailed  == {t \in Tickets : mails[t] > 0}
SentSet == {t \in Tickets : row[t] = "sent"}

LEMMA DeliveryInit == Init => Delivery!Init
BY DEF Init, Delivery!Init

\* Issuing an order takes its tickets on.
LEMMA IssueCommits ==
  ASSUME TypeOK, NEW w \in Workers, NEW o, IssueTickets(w, o)
  PROVE  Delivery!Commit
<1>. DEFINE S == {t \in Tickets : OrderOf[t] = o}
<1>1. Issued' = Issued \cup S /\ SentSet' = SentSet /\ Mailed' = Mailed
  BY DEF IssueTickets, TypeOK, Issued, SentSet, Mailed
<1>. QED  BY <1>1 DEF Delivery!Commit, Issued, SentSet, Mailed

\* An email the server takes is a handover, whether or not it is noticed.
LEMMA AcceptanceDelivers ==
  ASSUME MailInv, NEW s \in Senders, NEW t \in Tickets,
         Accepted(s, t) \/ AcceptedUnnoticed(s, t)
  PROVE  Delivery!Deliver
<1>1. t \in Issued
  BY DEF Accepted, AcceptedUnnoticed, CanSend, IsNext, MailInv, ListedIssued, Issued
<1>2. Mailed' = Mailed \cup {t}
  BY DEF Accepted, AcceptedUnnoticed, MailInv, TypeOK, Mailed
<1>3. Issued' = Issued /\ SentSet' = SentSet
  BY DEF Accepted, AcceptedUnnoticed, rowVars, Issued, SentSet
<1>. QED  BY <1>1, <1>2, <1>3 DEF Delivery!Deliver, Issued, SentSet, Mailed

\* A row is marked sent for an email that was accepted.
LEMMA MarkFinishes ==
  ASSUME MailInv, NEW s \in Senders, NEW t \in Tickets, MarkSent(s, t)
  PROVE  Delivery!Finish
<1>1. t \in Mailed /\ row[t] # "absent"
  BY DEF MarkSent, MailInv, AcceptedMailed, ListedIssued, IsNext, Mailed
<1>2. SentSet' = SentSet \cup {t} /\ Issued' = Issued /\ Mailed' = Mailed
  BY <1>1 DEF MarkSent, MailInv, TypeOK, SentSet, Issued, Mailed
<1>. QED  BY <1>1, <1>2 DEF Delivery!Finish, Issued, SentSet, Mailed

LEMMA DeliveryStep == MailInv /\ [Next]_vars => [Delivery!Next]_(Delivery!vars)
<1>. SUFFICES ASSUME MailInv, [Next]_vars PROVE [Delivery!Next]_(Delivery!vars)
  OBVIOUS
<1>1. ASSUME row' = row, mails' = mails
      PROVE  UNCHANGED Delivery!vars
  BY <1>1 DEF Delivery!vars
<1>2. ASSUME NEW w \in Workers, NEW t \in Tickets, IssueTickets(w, OrderOf[t])
      PROVE  Delivery!Next
  BY <1>2, IssueCommits DEF MailInv, Delivery!Next
<1>3. ASSUME NEW s \in Senders, SendStep(s)
      PROVE  [Delivery!Next]_(Delivery!vars)
  <2>. PICK t \in Tickets :
         \/ Accepted(s, t) \/ Refused(s, t) \/ AcceptedUnnoticed(s, t)
         \/ MarkSent(s, t) \/ CountAttempts(s, t) \/ MarkFailed(s, t) \/ MarkLost(s, t)
    BY <1>3 DEF SendStep
  <2>1. CASE Accepted(s, t) \/ AcceptedUnnoticed(s, t)
    BY <2>1, AcceptanceDelivers DEF Delivery!Next
  <2>2. CASE MarkSent(s, t)
    BY <2>2, MarkFinishes DEF Delivery!Next
  <2>3. CASE Refused(s, t) \/ CountAttempts(s, t) \/ MarkFailed(s, t) \/ MarkLost(s, t)
    BY <2>3, <1>1 DEF Refused, CountAttempts, MarkFailed, MarkLost, rowVars
  <2>. QED  BY <2>1, <2>2, <2>3
<1>4. ASSUME NEW c \in Crons,
             \/ FetchPendingForRetry(c) \/ FetchCommits(c)
             \/ \E t \in Tickets : SkipTicket(c, t)
      PROVE  UNCHANGED Delivery!vars
  BY <1>4, <1>1 DEF FetchPendingForRetry, FetchCommits, SkipTicket, rowVars
<1>5. ASSUME NEW s \in Senders, Cancel(s) \/ Crash(s)
      PROVE  UNCHANGED Delivery!vars
  BY <1>5, <1>1 DEF Cancel, Crash, rowVars
<1>6. CASE Tick \/ UNCHANGED vars
  BY <1>6, <1>1 DEF Tick, vars
<1>. QED  BY <1>2, <1>3, <1>4, <1>5, <1>6 DEF Next, CronStep, Senders

\* Any number of workers and overlapping cron runs, with crashes, cancelled
\* contexts, lost marks and emails whose acceptance went unnoticed, implement
\* at-least-once delivery of the emails: only issued tickets are emailed, and
\* only emailed ones are marked sent.
THEOREM NotificationsDelivered == Spec => EmailedAtLeastOnce
<1>1. Spec => []MailInv
  BY MailInit, MailStep, PTL DEF Spec
<1>. QED  BY <1>1, DeliveryInit, DeliveryStep, PTL
          DEF Spec, EmailedAtLeastOnce, Delivery!Spec

-----------------------------------------------------------------------------
(* The schedule. *)

LEMMA DocumentedGrows ==
  ASSUME NEW j \in 0..MaxShift, NEW k \in 0..MaxShift, j <= k
  PROVE  DocumentedCeiling(j) <= DocumentedCeiling(k)
<1>1. 2^j \in Nat /\ 2^k \in Nat /\ 2^j <= 2^k
  <2>1. j \in 0..Width /\ k \in j..Width /\ k \in 0..Width
    BY WidthAssumption DEF MaxShift
  <2>. QED  BY <2>1, PowersPositive, PowersGrow
<1>2. \A b, x, y \in Nat : x <= y => b * x \in Nat /\ b * y \in Nat /\ b * x <= b * y
  <2>. SUFFICES ASSUME NEW b \in Nat, NEW x \in Nat, NEW y \in Nat, x <= y
                PROVE  b * x \in Nat /\ b * y \in Nat /\ b * x <= b * y
    OBVIOUS
  <2>1. b * (y - x) >= 0
    OBVIOUS
  <2>. QED  BY <2>1
<1>3. Base * 2^j \in Nat /\ Base * 2^k \in Nat /\ Base * 2^j <= Base * 2^k
  BY <1>1, <1>2, DelayAssumption
<1>. QED  BY <1>3, DelayAssumption DEF DocumentedCeiling

\* A product that fits is wrapped to itself; one that does not exceeds the cap,
\* which fits, so that whatever it wraps to the result is within the schedule.
LEMMA CeilingDocumented ==
  ASSUME NEW n \in Int
  PROVE  Ceiling(n, Base, Cap) <= DocumentedCeiling(Shift(n))
<1>. DEFINE P == Base * 2^Shift(n)
            H == 2^(Width - 1)
<1>1. P \in Nat /\ P > 0
  <2>1. Shift(n) \in 0..Width
    BY ShiftInRange, WidthAssumption DEF MaxShift
  <2>2. 2^Shift(n) \in Nat /\ 2^Shift(n) >= 1
    BY <2>1, PowersPositive
  <2>3. \A b, x \in Nat : b > 0 /\ x > 0 => b * x \in Nat /\ b * x > 0
    OBVIOUS
  <2>. QED  BY <2>2, <2>3, DelayAssumption
<1>2. H \in Nat /\ H >= 1 /\ 2^Width = 2 * H
  <2>1. Width - 1 \in 0..Width /\ Width \in 0..Width /\ Width # 0
    BY WidthAssumption
  <2>. QED  BY <2>1, PowersPositive, PowersAssumption
<1>3. Ceiling(n, Base, Cap) \in 1..Cap
  BY CeilingInRange, DelayAssumption
<1>4. CASE P < H
  <2>1. P % 2^Width = P
    <3>1. 2^Width \in Nat /\ P < 2^Width
      BY <1>1, <1>2, <1>4
    <3>2. \A x, y \in Nat : x < y => x % y = x
      OBVIOUS
    <3>. QED  BY <1>1, <3>1, <3>2
  <2>2. Wrap(P) = P
    BY <1>4, <2>1, <1>1, <1>2 DEF Wrap
  <2>3. Ceiling(n, Base, Cap) = IF P <= 0 \/ P > Cap THEN Cap ELSE P
    BY <2>2 DEF Ceiling
  <2>4. DocumentedCeiling(Shift(n)) = IF P < Cap THEN P ELSE Cap
    BY DEF DocumentedCeiling
  <2>. HIDE DEF P
  <2>. QED  BY <1>1, <2>3, <2>4, DelayAssumption
<1>5. CASE P >= H
  <2>1. DocumentedCeiling(Shift(n)) = IF P < Cap THEN P ELSE Cap
    BY DEF DocumentedCeiling
  <2>2. Cap < H
    BY DurationAssumption
  <2>. HIDE DEF P, H
  <2>. QED  BY <1>1, <1>2, <1>3, <1>5, <2>1, <2>2, DelayAssumption
<1>. QED  BY <1>1, <1>2, <1>4, <1>5

\* What a sender has counted is on record, or more: counts only grow.
CountedRecorded ==
  \A s \in Senders, t \in Tickets :
    pc[s] = "counted" /\ IsNext(s, t) => counted[s] <= attempts[t]

ScheduleInv == TypeOK /\ CountedRecorded /\ WaitsOnSchedule

\* The delay a failure sets is within the schedule of the count it leaves.
LEMMA DelayOnSchedule ==
  ASSUME NEW n \in 0..MaxShift, NEW m \in 0..MaxShift, n <= m,
         NEW d \in BackoffDelays(n + 1, Base, Cap)
  PROVE  d <= DocumentedCeiling(Shift(m + 1))
<1>1. MaxShift \in Nat /\ n + 1 \in Int /\ m + 1 \in Int
  BY WidthAssumption DEF MaxShift
<1>2. Ceiling(n + 1, Base, Cap) \in 1..Cap
  BY <1>1, CeilingInRange, DelayAssumption
<1>3. d \in Int /\ d <= Ceiling(n + 1, Base, Cap)
  BY <1>2, DelayAssumption DEF BackoffDelays
<1>4. Ceiling(n + 1, Base, Cap) <= DocumentedCeiling(Shift(n + 1))
  BY <1>1, CeilingDocumented
<1>5. /\ Shift(n + 1) \in 0..MaxShift /\ Shift(m + 1) \in 0..MaxShift
      /\ Shift(n + 1) <= Shift(m + 1)
  BY <1>1, ShiftInRange DEF Shift
<1>6. DocumentedCeiling(Shift(n + 1)) <= DocumentedCeiling(Shift(m + 1))
  BY <1>5, DocumentedGrows
<1>7. \A k \in 0..MaxShift : DocumentedCeiling(k) \in Int
  <2>1. \A k \in 0..MaxShift : k \in 0..Width
    BY WidthAssumption DEF MaxShift
  <2>. QED  BY <2>1, PowersPositive, DelayAssumption DEF DocumentedCeiling
<1>. QED  BY <1>2, <1>3, <1>4, <1>5, <1>6, <1>7

LEMMA NextUnique ==
  ASSUME NEW s, NEW t \in Tickets, NEW u \in Tickets, IsNext(s, t), IsNext(s, u)
  PROVE  t = u
BY TicketsAssumption DEF IsNext

LEMMA CountedStep ==
  ASSUME ScheduleInv, NEW s \in Senders, NEW t \in Tickets, CountAttempts(s, t)
  PROVE  CountedRecorded'
<1>. USE DEF ScheduleInv, TypeOK
<1>. SUFFICES ASSUME NEW p \in Senders, NEW u \in Tickets, pc'[p] = "counted", IsNext(p, u)'
              PROVE  counted'[p] <= attempts'[u]
  BY DEF CountedRecorded
<1>1. IsNext(p, u) /\ attempts'[u] = attempts[u]
  BY DEF CountAttempts, IsNext, rowVars
<1>2. CASE p = s
  <2>1. u = t
    BY <1>1, <1>2, NextUnique DEF CountAttempts
  <2>. QED  BY <1>1, <1>2, <2>1 DEF CountAttempts, MaxShift
<1>3. CASE p # s
  BY <1>1, <1>3 DEF CountAttempts, CountedRecorded
<1>. QED  BY <1>2, <1>3

LEMMA FailedStep ==
  ASSUME ScheduleInv, NEW s \in Senders, NEW t \in Tickets, MarkFailed(s, t)
  PROVE  CountedRecorded' /\ WaitsOnSchedule'
<1>. USE DEF ScheduleInv, TypeOK
<1>1. PICK d \in BackoffDelays(counted[s] + 1, Base, Cap) : wait' = [wait EXCEPT ![t] = d]
  BY DEF MarkFailed
<1>2. counted[s] <= attempts[t]
  BY DEF MarkFailed, CountedRecorded
<1>3. d <= DocumentedCeiling(Shift(attempts[t] + 1))
  BY <1>2, DelayOnSchedule
<1>4. attempts' = [attempts EXCEPT ![t] = Shift(attempts[t] + 1)]
  BY DEF MarkFailed
<1>5. WaitsOnSchedule'
  BY <1>1, <1>3, <1>4 DEF WaitsOnSchedule, DocumentedCeiling
<1>6. attempts[t] \in 0..MaxShift /\ attempts[t] <= attempts'[t]
  BY <1>4, WidthAssumption DEF Shift, MaxShift
<1>7. \A p \in Senders, u \in Tickets : pc'[p] = "counted" /\ IsNext(p, u)' =>
        pc[p] = "counted" /\ IsNext(p, u) /\ counted'[p] = counted[p]
  BY DEF MarkFailed, Advance, IsNext
<1>8. \A p \in Senders : counted[p] \in Int
  BY WidthAssumption DEF MaxShift
<1>9. \A u \in Tickets : u # t => attempts'[u] = attempts[u]
  BY <1>4
<1>10. \A u \in Tickets : attempts[u] \in Int /\ attempts'[u] \in Int /\ attempts[u] <= attempts'[u]
  <2>. SUFFICES ASSUME NEW u \in Tickets
                PROVE  attempts[u] \in Int /\ attempts'[u] \in Int /\ attempts[u] <= attempts'[u]
    OBVIOUS
  <2>1. CASE u = t
    <3>1. attempts[t] + 1 \in Int
      BY <1>6, WidthAssumption DEF MaxShift
    <3>2. attempts'[t] \in 0..MaxShift
      BY <1>4, <3>1, ShiftInRange
    <3>. QED  BY <1>6, <2>1, <3>2, WidthAssumption DEF MaxShift
  <2>2. CASE u # t
    BY <1>9, <2>2, WidthAssumption DEF MaxShift
  <2>. QED  BY <2>1, <2>2
<1>11. CountedRecorded'
  BY <1>7, <1>8, <1>10 DEF CountedRecorded
<1>. QED  BY <1>5, <1>11

LEMMA ScheduleStep == ScheduleInv /\ [Next]_vars => ScheduleInv'
<1>. SUFFICES ASSUME ScheduleInv, [Next]_vars PROVE CountedRecorded' /\ WaitsOnSchedule'
  BY TypeStep DEF ScheduleInv
<1>. USE DEF ScheduleInv, TypeOK
\* Nobody else touches what a sender has counted, and delays only get shorter.
<1>1. ASSUME UNCHANGED <<attempts, counted>>,
             \A p \in Senders, u \in Tickets : pc'[p] = "counted" /\ IsNext(p, u)' =>
               pc[p] = "counted" /\ IsNext(p, u)
      PROVE  CountedRecorded'
  BY <1>1 DEF CountedRecorded
<1>2. ASSUME UNCHANGED <<attempts, wait>>
      PROVE  WaitsOnSchedule'
  BY <1>2 DEF WaitsOnSchedule, DocumentedCeiling
<1>3. CASE Tick
  <2>1. WaitsOnSchedule'
    <3>. SUFFICES ASSUME NEW t \in Tickets
                  PROVE  wait'[t] <= DocumentedCeiling(attempts[t])
      BY <1>3 DEF Tick, WaitsOnSchedule, DocumentedCeiling
    <3>1. wait[t] \in Nat /\ wait'[t] \in Nat /\ wait'[t] <= wait[t]
      BY <1>3, DelayAssumption DEF Tick
    <3>2. DocumentedCeiling(attempts[t]) \in Int
      <4>1. attempts[t] \in 0..Width
        BY WidthAssumption DEF MaxShift
      <4>. QED  BY <4>1, PowersPositive, DelayAssumption DEF DocumentedCeiling
    <3>. QED  BY <3>1, <3>2 DEF WaitsOnSchedule
  <2>. QED  BY <1>1, <1>3, <2>1 DEF Tick, senderVars, IsNext
<1>4. ASSUME NEW w \in Workers, NEW o, IssueTickets(w, o)
      PROVE  CountedRecorded' /\ WaitsOnSchedule'
  BY <1>1, <1>2, <1>4 DEF IssueTickets, IsNext, Senders
<1>5. ASSUME NEW c \in Crons, FetchPendingForRetry(c) \/ FetchCommits(c)
      PROVE  CountedRecorded' /\ WaitsOnSchedule'
  BY <1>1, <1>2, <1>5 DEF FetchPendingForRetry, FetchCommits, IsNext, Senders, rowVars
<1>6. ASSUME NEW s \in Senders, NEW t \in Tickets,
             Accepted(s, t) \/ Refused(s, t) \/ AcceptedUnnoticed(s, t)
      PROVE  CountedRecorded' /\ WaitsOnSchedule'
  BY <1>1, <1>2, <1>6 DEF Accepted, Refused, AcceptedUnnoticed, IsNext, rowVars
<1>7. ASSUME NEW s \in Senders, NEW t \in Tickets,
             MarkSent(s, t) \/ MarkLost(s, t) \/ SkipTicket(s, t)
      PROVE  CountedRecorded' /\ WaitsOnSchedule'
  <2>1. Advance(s, t) /\ UNCHANGED attempts
    BY <1>7 DEF MarkSent, MarkLost, SkipTicket, rowVars
  <2>2. \A p \in Senders, u \in Tickets : pc'[p] = "counted" /\ IsNext(p, u)' =>
          pc[p] = "counted" /\ IsNext(p, u) /\ counted'[p] = counted[p]
    BY <2>1 DEF Advance, IsNext
  <2>3. CountedRecorded'
    BY <2>1, <2>2 DEF CountedRecorded
  <2>4. WaitsOnSchedule'
    <3>1. CASE wait' = wait
      BY <1>2, <2>1, <3>1
    <3>2. CASE wait' = [wait EXCEPT ![t] = 0]
      <4>1. DocumentedCeiling(attempts[t]) >= 0
        <5>1. attempts[t] \in 0..Width
          BY WidthAssumption DEF MaxShift
        <5>2. 2^attempts[t] \in Nat
          BY <5>1, PowersPositive
        <5>3. Base * 2^attempts[t] \in Nat
          BY <5>2, DelayAssumption
        <5>. QED  BY <5>3, DelayAssumption DEF DocumentedCeiling
      <4>2. \A u \in Tickets : wait'[u] = IF u = t THEN 0 ELSE wait[u]
        BY <3>2
      <4>3. \A u \in Tickets : DocumentedCeiling(attempts[u])' = DocumentedCeiling(attempts[u])
        BY <2>1 DEF DocumentedCeiling
      <4>. QED  BY <4>1, <4>2, <4>3 DEF WaitsOnSchedule
    <3>. QED  BY <1>7, <3>1, <3>2 DEF MarkSent, MarkLost, SkipTicket, rowVars
  <2>. QED  BY <2>3, <2>4
<1>8. ASSUME NEW s \in Senders, Cancel(s) \/ Crash(s)
      PROVE  CountedRecorded' /\ WaitsOnSchedule'
  <2>1. \A p \in Senders, u \in Tickets : pc'[p] = "counted" /\ IsNext(p, u)' =>
          pc[p] = "counted" /\ IsNext(p, u) /\ counted'[p] = counted[p]
    BY <1>8 DEF Cancel, Crash, IsNext
  <2>2. UNCHANGED <<attempts, wait>>
    BY <1>8 DEF Cancel, Crash, rowVars
  <2>. QED  BY <1>2, <2>1, <2>2 DEF CountedRecorded
<1>9. CASE UNCHANGED vars
  BY <1>1, <1>2, <1>9 DEF vars, IsNext
<1>. QED  BY <1>3, <1>4, <1>5, <1>6, <1>7, <1>8, <1>9, CountedStep, FailedStep
          DEF Next, CronStep, SendStep, Senders, CountAttempts, rowVars, WaitsOnSchedule,
              DocumentedCeiling

LEMMA ScheduleInit == Init => ScheduleInv
<1>. SUFFICES ASSUME Init PROVE WaitsOnSchedule
  BY TypeInit DEF Init, ScheduleInv, CountedRecorded
<1>1. Base * 2^0 >= 0
  <2>1. 2^0 \in Nat
    BY PowersPositive, WidthAssumption
  <2>. QED  BY <2>1, DelayAssumption
<1>. QED  BY <1>1, DelayAssumption DEF Init, WaitsOnSchedule, DocumentedCeiling

\* No row waits longer than backoff.go documents for the attempts on record,
\* for any integer width, base and cap, whoever counts and marks it meanwhile.
THEOREM OnSchedule == Spec => []WaitsOnSchedule
<1>1. ScheduleInv => WaitsOnSchedule
  BY DEF ScheduleInv
<1>. QED  BY <1>1, ScheduleInit, ScheduleStep, PTL DEF Spec

-----------------------------------------------------------------------------
(* Duplicates.  While a row is pending, each email sent for it is one that   *)
(* somebody is about to mark, or has been paid for by a disruption; a sender *)
(* whose context is cancelled has paid in advance for the mark it will lose. *)
(* The first mark fixes who may still send, for no later fetch selects the   *)
(* row: one worker, and the cron runs under way, of which all but one have   *)
(* been paid for by a disruption as well.                                    *)

Handled == {"accepted", "refused", "counted"}

Holders(t) == {s \in Senders : t \in todo[s]}

\* The senders that hold the ticket and have not sent its email yet.
Unsent(t) == {s \in Senders : t \in todo[s] /\ ~(pc[s] \in Handled /\ IsNext(s, t))}

\* Those among them whose context is cancelled already.
Excused(t) == Unsent(t) \cap cancelled

\* The senders that will mark the ticket sent, unless something happens.
Unmarked(t) == {s \in Senders : pc[s] = "accepted" /\ IsNext(s, t)} \ cancelled

PendingBudget(t) ==
  row[t] # "sent" =>
    /\ mails[t] + Cardinality(Excused(t)) <= disruptions + Cardinality(Unmarked(t))
    /\ mails[t] + Cardinality(Excused(t)) + Cardinality(Running) <=
         disruptions + 1 + Cardinality(Unmarked(t))

SentBudget(t) ==
  row[t] = "sent" =>
    mails[t] + Cardinality(Unsent(t)) <= disruptions + 2

\* A sender without work holds no ticket, and is not cancelled.
IdleFree ==
  \A s \in Senders : /\ pc[s] = "idle" => todo[s] = {}
                     /\ s \in cancelled => pc[s] \notin {"idle", "fetching"}

\* At most one worker holds a ticket: the one that issued it.
OneIssuer ==
  \A t \in Tickets : \A v, w \in Workers : t \in todo[v] /\ t \in todo[w] => v = w

UnissuedUnsent == \A t \in Tickets : row[t] = "absent" => mails[t] = 0

DuplicateInv ==
  /\ TypeOK
  /\ ListedIssued /\ IdleFree /\ OneIssuer /\ UnissuedUnsent
  /\ \A t \in Tickets : PendingBudget(t) /\ SentBudget(t)

One(b) == IF b THEN 1 ELSE 0

\* The sizes of two sets that differ in one element.
LEMMA SizeChanges ==
  ASSUME NEW X, IsFiniteSet(X), NEW Y, NEW s, Y \ {s} = X \ {s}
  PROVE  /\ Cardinality(X) \in Nat /\ Cardinality(Y) \in Nat
         /\ Cardinality(Y) + One(s \in X) = Cardinality(X) + One(s \in Y)
<1>. DEFINE Z == X \ {s}
<1>1. /\ IsFiniteSet(Z) /\ Cardinality(Z) \in Nat /\ Cardinality(X) \in Nat
      /\ Cardinality(X) = Cardinality(Z) + One(s \in X)
  <2>1. /\ IsFiniteSet(Z)
        /\ Cardinality(Z) = IF s \in X THEN Cardinality(X) - 1 ELSE Cardinality(X)
    BY FS_RemoveElement
  <2>2. Cardinality(Z) \in Nat /\ Cardinality(X) \in Nat
    BY <2>1, FS_CardinalityType
  <2>. HIDE DEF Z
  <2>. QED  BY <2>1, <2>2 DEF One
<1>2. CASE s \in Y
  <2>1. Y = Z \cup {s} /\ s \notin Z
    BY <1>2
  <2>2. Cardinality(Y) = Cardinality(Z) + 1
    BY <1>1, <2>1, FS_AddElement
  <2>. QED  BY <1>1, <1>2, <2>2 DEF One
<1>3. CASE s \notin Y
  <2>1. Y = Z
    BY <1>3
  <2>. QED  BY <1>1, <1>3, <2>1 DEF One
<1>. QED  BY <1>2, <1>3

LEMMA SendersFinite ==
  ASSUME NEW S \in SUBSET Senders
  PROVE  IsFiniteSet(S) /\ Cardinality(S) \in Nat
BY SendersAssumption, FS_Subset, FS_CardinalityType DEF Senders

LEMMA HolderSets ==
  ASSUME NEW t
  PROVE  /\ IsFiniteSet(Unsent(t)) /\ Cardinality(Unsent(t)) \in Nat
         /\ IsFiniteSet(Excused(t)) /\ Cardinality(Excused(t)) \in Nat
         /\ IsFiniteSet(Unmarked(t)) /\ Cardinality(Unmarked(t)) \in Nat
         /\ IsFiniteSet(Running) /\ Cardinality(Running) \in Nat
<1>1. /\ Unsent(t) \in SUBSET Senders /\ Excused(t) \in SUBSET Senders
      /\ Unmarked(t) \in SUBSET Senders /\ Running \in SUBSET Senders
  BY DEF Unsent, Excused, Unmarked, Running, Senders
<1>. QED  BY <1>1, SendersFinite

\* The holders of a ticket: one worker, and cron runs under way.
LEMMA FewHolders ==
  ASSUME OneIssuer, IdleFree, NEW t \in Tickets
  PROVE  /\ Cardinality(Holders(t)) \in Nat /\ Cardinality(Running) \in Nat
         /\ Cardinality(Holders(t)) <= 1 + Cardinality(Running)
<1>1. IsFiniteSet(Running) /\ Cardinality(Running) \in Nat
  BY HolderSets
<1>2. IsFiniteSet(Holders(t)) /\ Cardinality(Holders(t)) \in Nat
  BY SendersFinite DEF Holders
<1>3. \A c \in Crons : t \in todo[c] => c \in Running
  BY DEF IdleFree, Running, Senders
<1>4. CASE \E w \in Workers : t \in todo[w]
  <2>. PICK w \in Workers : t \in todo[w]
    BY <1>4
  <2>1. Holders(t) \in SUBSET (Running \cup {w})
    BY <1>3 DEF Holders, OneIssuer, Senders
  <2>2. /\ IsFiniteSet(Running \cup {w})
        /\ Cardinality(Running \cup {w}) <= Cardinality(Running) + 1
        /\ Cardinality(Running \cup {w}) \in Nat
    <3>1. /\ IsFiniteSet(Running \cup {w})
          /\ Cardinality(Running \cup {w}) =
               IF w \in Running THEN Cardinality(Running) ELSE Cardinality(Running) + 1
      BY <1>1, FS_AddElement
    <3>. QED  BY <1>1, <3>1
  <2>3. Cardinality(Holders(t)) <= Cardinality(Running \cup {w})
    BY <2>1, <2>2, FS_Subset
  <2>. QED  BY <1>1, <1>2, <2>2, <2>3
<1>5. CASE ~ \E w \in Workers : t \in todo[w]
  <2>1. Holders(t) \in SUBSET Running
    BY <1>3, <1>5 DEF Holders, Senders
  <2>2. Cardinality(Holders(t)) <= Cardinality(Running)
    BY <1>1, <2>1, FS_Subset
  <2>. QED  BY <1>1, <1>2, <2>2
<1>. QED  BY <1>4, <1>5

\* What a step of one sender may do to the others: nothing.
OnlyMoves(s) ==
  \A p \in Senders : p # s =>
    /\ pc'[p] = pc[p] /\ todo'[p] = todo[p]
    /\ p \in cancelled' <=> p \in cancelled

LEMMA OthersKept ==
  ASSUME NEW s \in Senders, OnlyMoves(s), NEW t
  PROVE  /\ Unsent(t)' \ {s} = Unsent(t) \ {s}
         /\ Excused(t)' \ {s} = Excused(t) \ {s}
         /\ Unmarked(t)' \ {s} = Unmarked(t) \ {s}
         /\ Running' \ {s} = Running \ {s}
<1>1. \A p \in Senders : p # s => (IsNext(p, t)' <=> IsNext(p, t))
  BY DEF OnlyMoves, IsNext
<1>2. Unsent(t)' \ {s} = Unsent(t) \ {s}
  BY <1>1 DEF OnlyMoves, Unsent
<1>3. Excused(t)' \ {s} = Excused(t) \ {s}
  BY <1>2 DEF OnlyMoves, Excused, Unsent
<1>4. Unmarked(t)' \ {s} = Unmarked(t) \ {s}
  BY <1>1 DEF OnlyMoves, Unmarked
<1>5. Running' \ {s} = Running \ {s}
  BY DEF OnlyMoves, Running, Senders
<1>. QED  BY <1>2, <1>3, <1>4, <1>5

\* The budgets of a ticket after a step of one sender: what it sent is paid for
\* by what it gave up, or by a disruption; and so is a run that joins others.
LEMMA BudgetsKept ==
  ASSUME DuplicateInv, TypeOK', NEW s \in Senders, OnlyMoves(s), NEW t \in Tickets,
         row'[t] = row[t],
         mails'[t] + One(s \in Excused(t)') + One(s \in Unmarked(t)) + disruptions <=
           mails[t] + One(s \in Excused(t)) + One(s \in Unmarked(t)') + disruptions',
         \/ s \in Running' => s \in Running
         \/ Running = {}
         \/ mails'[t] + One(s \in Excused(t)') + One(s \in Unmarked(t)) + disruptions <
              mails[t] + One(s \in Excused(t)) + One(s \in Unmarked(t)') + disruptions',
         row[t] = "sent" =>
           mails'[t] + One(s \in Unsent(t)') + disruptions <=
             mails[t] + One(s \in Unsent(t)) + disruptions'
  PROVE  PendingBudget(t)' /\ SentBudget(t)'
<1>1. /\ mails[t] \in Nat /\ mails'[t] \in Nat /\ disruptions \in Int /\ disruptions' \in Int
  BY DisruptionsAssumption DEF DuplicateInv, TypeOK
<1>2. /\ Cardinality(Unsent(t)) \in Nat /\ Cardinality(Unsent(t)') \in Nat
      /\ Cardinality(Unsent(t)') + One(s \in Unsent(t)) =
           Cardinality(Unsent(t)) + One(s \in Unsent(t)')
  BY OthersKept, HolderSets, SizeChanges
<1>3. /\ Cardinality(Excused(t)) \in Nat /\ Cardinality(Excused(t)') \in Nat
      /\ Cardinality(Excused(t)') + One(s \in Excused(t)) =
           Cardinality(Excused(t)) + One(s \in Excused(t)')
  BY OthersKept, HolderSets, SizeChanges
<1>4. /\ Cardinality(Unmarked(t)) \in Nat /\ Cardinality(Unmarked(t)') \in Nat
      /\ Cardinality(Unmarked(t)') + One(s \in Unmarked(t)) =
           Cardinality(Unmarked(t)) + One(s \in Unmarked(t)')
  BY OthersKept, HolderSets, SizeChanges
<1>5. /\ Cardinality(Running) \in Nat /\ Cardinality(Running') \in Nat
      /\ Cardinality(Running') + One(s \in Running) = Cardinality(Running) + One(s \in Running')
  BY OthersKept, HolderSets, SizeChanges
<1>6. /\ One(s \in Unsent(t)) \in Int /\ One(s \in Unsent(t)') \in Int
      /\ One(s \in Excused(t)) \in Int /\ One(s \in Excused(t)') \in Int
      /\ One(s \in Unmarked(t)) \in Int /\ One(s \in Unmarked(t)') \in Int
      /\ One(s \in Running) \in 0..1 /\ One(s \in Running') \in 0..1
  BY DEF One
<1>7. PendingBudget(t)'
  <2>. SUFFICES ASSUME row[t] # "sent"
                PROVE  /\ mails'[t] + Cardinality(Excused(t)') <=
                            disruptions' + Cardinality(Unmarked(t)')
                       /\ mails'[t] + Cardinality(Excused(t)') + Cardinality(Running') <=
                            disruptions' + 1 + Cardinality(Unmarked(t)')
    BY DEF PendingBudget
  <2>1. /\ mails[t] + Cardinality(Excused(t)) <= disruptions + Cardinality(Unmarked(t))
        /\ mails[t] + Cardinality(Excused(t)) + Cardinality(Running) <=
             disruptions + 1 + Cardinality(Unmarked(t))
    BY DEF DuplicateInv, PendingBudget
  <2>2. mails'[t] + Cardinality(Excused(t)') <= disruptions' + Cardinality(Unmarked(t)')
    BY <1>1, <1>3, <1>4, <1>6, <2>1
  <2>3. CASE s \in Running' => s \in Running
    <3>1. Cardinality(Running') <= Cardinality(Running)
      BY <1>5, <2>3 DEF One
    <3>. QED  BY <1>1, <1>3, <1>4, <1>5, <1>6, <2>1, <2>2, <3>1
  <2>4. CASE Running = {}
    <3>1. Cardinality(Running) = 0
      BY <2>4, FS_EmptySet
    <3>2. Cardinality(Running') <= 1
      BY <1>5, <1>6, <3>1
    <3>. QED  BY <1>1, <1>3, <1>4, <1>5, <2>2, <3>2
  <2>5. CASE mails'[t] + One(s \in Excused(t)') + One(s \in Unmarked(t)) + disruptions <
               mails[t] + One(s \in Excused(t)) + One(s \in Unmarked(t)') + disruptions'
    BY <1>1, <1>3, <1>4, <1>5, <1>6, <2>1, <2>2, <2>5
  <2>. QED  BY <2>3, <2>4, <2>5
<1>8. SentBudget(t)'
  <2>. SUFFICES ASSUME row[t] = "sent"
                PROVE  mails'[t] + Cardinality(Unsent(t)') <= disruptions' + 2
    BY DEF SentBudget
  <2>1. mails[t] + Cardinality(Unsent(t)) <= disruptions + 2
    BY DEF DuplicateInv, SentBudget
  <2>. QED  BY <1>1, <1>2, <1>6, <2>1
<1>. QED  BY <1>7, <1>8

\* The rest of the invariant, when no row and no list grows.
LEMMA ListsShrink ==
  ASSUME DuplicateInv, TypeOK', row' = row,
         \A s \in Senders : todo'[s] \subseteq todo[s],
         \A t \in Tickets : mails'[t] # mails[t] => \E s \in Senders : t \in todo[s],
         IdleFree'
  PROVE  ListedIssued' /\ IdleFree' /\ OneIssuer' /\ UnissuedUnsent'
<1>1. ListedIssued' /\ OneIssuer'
  BY DEF DuplicateInv, ListedIssued, OneIssuer, Senders
<1>2. UnissuedUnsent'
  BY DEF DuplicateInv, ListedIssued, UnissuedUnsent, TypeOK
<1>. QED  BY <1>1, <1>2

\* The server takes an email, and the sender learns of it or does not.
LEMMA AcceptedBudget ==
  ASSUME DuplicateInv, TypeOK', NEW s \in Senders, NEW t \in Tickets,
         Accepted(s, t) \/ AcceptedUnnoticed(s, t) \/ Refused(s, t)
  PROVE  DuplicateInv'
<1>. USE DEF TypeOK
<1>0. /\ CanSend(s, t) /\ row' = row /\ todo' = todo /\ cancelled' = cancelled
      /\ pc'[s] \in {"accepted", "refused"}
      /\ pc[s] = "sending" /\ IsNext(s, t)
      /\ \A p \in Senders : p # s => pc'[p] = pc[p]
      /\ \A u \in Tickets : u # t => mails'[u] = mails[u]
  BY DEF Accepted, AcceptedUnnoticed, Refused, CanSend, rowVars, DuplicateInv
<1>1. OnlyMoves(s) /\ (s \in Running' => s \in Running)
  BY <1>0 DEF OnlyMoves, Running
<1>2. disruptions \in Int /\ disruptions' \in Int /\ disruptions <= disruptions'
  BY DisruptionsAssumption DEF Accepted, AcceptedUnnoticed, Refused, Disrupt, DuplicateInv
<1>3. ASSUME NEW u \in Tickets
      PROVE  PendingBudget(u)' /\ SentBudget(u)'
  <2>0. mails[u] \in Nat /\ mails'[u] \in Nat
    BY DEF DuplicateInv
  <2>1. CASE u # t
    <3>1. ~IsNext(s, u) /\ ~IsNext(s, u)'
      BY <1>0, <2>1, NextUnique DEF IsNext
    <3>2. /\ s \in Unsent(u) <=> s \in Unsent(u)'
          /\ s \in Excused(u) <=> s \in Excused(u)'
          /\ s \notin Unmarked(u) /\ s \notin Unmarked(u)'
      BY <1>0, <3>1 DEF Unsent, Excused, Unmarked
    <3>. QED  BY <1>0, <1>1, <1>2, <2>0, <2>1, <3>2, BudgetsKept DEF One
  <2>2. CASE u = t
    <3>1. /\ s \in Unsent(t) /\ s \notin Unsent(t)' /\ s \notin Excused(t)'
          /\ s \in Excused(t) <=> s \in cancelled
          /\ s \notin Unmarked(t)
      BY <1>0 DEF Unsent, Excused, Unmarked, Handled, IsNext
    <3>2. CASE Accepted(s, t)
      <4>1. mails'[t] = mails[t] + 1 /\ disruptions' = disruptions /\ pc'[s] = "accepted"
        BY <3>2 DEF Accepted, DuplicateInv
      <4>2. s \in Unmarked(t)' <=> s \notin cancelled
        BY <1>0, <4>1 DEF Unmarked, IsNext
      <4>. QED  BY <1>0, <1>1, <1>2, <2>0, <2>2, <3>1, <4>1, <4>2, BudgetsKept DEF One
    <3>3. CASE AcceptedUnnoticed(s, t)
      <4>1. mails'[t] = mails[t] + 1 /\ disruptions' = disruptions + 1 /\ pc'[s] = "refused"
        BY <3>3 DEF AcceptedUnnoticed, Disrupt, DuplicateInv
      <4>2. s \notin Unmarked(t)'
        BY <4>1 DEF Unmarked
      <4>. QED  BY <1>0, <1>1, <1>2, <2>0, <2>2, <3>1, <4>1, <4>2, BudgetsKept DEF One
    <3>4. CASE Refused(s, t)
      <4>1. mails'[t] = mails[t] /\ pc'[s] = "refused"
        BY <3>4 DEF Refused, DuplicateInv
      <4>2. s \notin Unmarked(t)'
        BY <4>1 DEF Unmarked
      <4>. QED  BY <1>0, <1>1, <1>2, <2>0, <2>2, <3>1, <4>1, <4>2, BudgetsKept DEF One
    <3>. QED  BY <3>2, <3>3, <3>4
  <2>. QED  BY <2>1, <2>2
<1>4. IdleFree'
  BY <1>0 DEF DuplicateInv, IdleFree
<1>5. t \in todo[s]
  BY <1>0 DEF IsNext
<1>6. ListedIssued' /\ OneIssuer' /\ UnissuedUnsent'
  BY <1>0, <1>4, <1>5, ListsShrink
<1>. QED  BY <1>3, <1>4, <1>6 DEF DuplicateInv

\* What Advance does to a sender's part in the budgets.
LEMMA AdvanceMoves ==
  ASSUME TypeOK, IdleFree, NEW s \in Senders, NEW t \in Tickets, Advance(s, t), IsNext(s, t),
         pc[s] \in Handled \cup {"sending"}
  PROVE  /\ OnlyMoves(s) /\ IdleFree' /\ (s \in Running' => s \in Running)
         /\ \A p \in Senders : todo'[p] \subseteq todo[p]
         /\ \A u \in Tickets :
              /\ s \in Unsent(u)' => s \in Unsent(u)
              /\ s \in Excused(u)' => s \in Excused(u)
              /\ s \notin Unmarked(u)'
              /\ u # t => s \notin Unmarked(u)
<1>. USE DEF TypeOK
<1>1. OnlyMoves(s)
  BY DEF Advance, OnlyMoves
<1>2. /\ pc'[s] = IF todo[s] = {t} THEN "idle" ELSE "sending"
      /\ todo'[s] = todo[s] \ {t}
      /\ cancelled' = IF todo[s] = {t} THEN cancelled \ {s} ELSE cancelled
  BY DEF Advance
<1>3. IdleFree'
  <2>1. ASSUME NEW p \in Senders, p # s
        PROVE  /\ pc'[p] = "idle" => todo'[p] = {}
               /\ p \in cancelled' => pc'[p] \notin {"idle", "fetching"}
    BY <1>1, <2>1 DEF OnlyMoves, IdleFree
  <2>2. /\ pc'[s] = "idle" => todo'[s] = {}
        /\ s \in cancelled' => pc'[s] \notin {"idle", "fetching"}
    BY <1>2
  <2>. QED  BY <2>1, <2>2 DEF IdleFree
<1>4. \A p \in Senders : todo'[p] \subseteq todo[p]
  BY <1>1, <1>2 DEF OnlyMoves
<1>5. ASSUME NEW u \in Tickets
      PROVE  /\ s \in Unsent(u)' => s \in Unsent(u)
             /\ s \in Excused(u)' => s \in Excused(u)
             /\ s \notin Unmarked(u)'
             /\ u # t => s \notin Unmarked(u)
  <2>1. u # t => ~IsNext(s, u)
    BY NextUnique
  <2>2. s \in Unsent(u)' => s \in Unsent(u)
    BY <1>2, <2>1 DEF Unsent
  <2>3. s \in Excused(u)' => s \in Excused(u)
    BY <1>2, <2>2 DEF Excused
  <2>4. s \notin Unmarked(u)' /\ (u # t => s \notin Unmarked(u))
    BY <1>2, <2>1 DEF Unmarked
  <2>. QED  BY <2>2, <2>3, <2>4
<1>6. s \in Running' => s \in Running
  BY DEF Running, Handled
<1>. QED  BY <1>1, <1>3, <1>4, <1>5, <1>6

\* A ticket given up without a mark: if its email was sent, the lost mark is a
\* disruption, or the sender was cancelled and has paid for it.
LEMMA LostBudget ==
  ASSUME DuplicateInv, TypeOK', NEW s \in Senders, NEW t \in Tickets,
         MarkFailed(s, t) \/ MarkLost(s, t) \/ SkipTicket(s, t)
  PROVE  DuplicateInv'
<1>. USE DEF TypeOK
<1>0. /\ Advance(s, t) /\ IsNext(s, t) /\ row' = row /\ mails' = mails
      /\ pc[s] \in Handled \cup {"sending"}
  BY DEF MarkFailed, MarkLost, SkipTicket, Handled, rowVars
<1>1. /\ OnlyMoves(s) /\ IdleFree' /\ (s \in Running' => s \in Running)
      /\ \A p \in Senders : todo'[p] \subseteq todo[p]
      /\ \A u \in Tickets :
           /\ s \in Unsent(u)' => s \in Unsent(u)
           /\ s \in Excused(u)' => s \in Excused(u)
           /\ s \notin Unmarked(u)'
           /\ u # t => s \notin Unmarked(u)
  BY <1>0, AdvanceMoves DEF DuplicateInv
<1>2. disruptions \in Int /\ disruptions' \in Int /\ disruptions <= disruptions'
  BY DisruptionsAssumption DEF MarkFailed, MarkLost, SkipTicket, Disrupt, DuplicateInv
<1>3. s \in Unmarked(t) => disruptions' = disruptions + 1
  BY DEF MarkFailed, MarkLost, SkipTicket, Disrupt, Unmarked
<1>4. ASSUME NEW u \in Tickets
      PROVE  PendingBudget(u)' /\ SentBudget(u)'
  <2>0. mails[u] \in Nat /\ mails'[u] = mails[u] /\ row'[u] = row[u]
    BY <1>0 DEF DuplicateInv
  <2>1. One(s \in Unmarked(u)) + disruptions <= disruptions' /\ One(s \in Unmarked(u)') = 0
    <3>1. CASE u = t
      BY <1>1, <1>2, <1>3, <3>1 DEF One
    <3>2. CASE u # t
      BY <1>1, <1>2, <3>2 DEF One
    <3>. QED  BY <3>1, <3>2
  <2>2. /\ One(s \in Excused(u)') \in Int /\ One(s \in Excused(u)) \in Int
        /\ One(s \in Excused(u)') <= One(s \in Excused(u))
        /\ One(s \in Unsent(u)') \in Int /\ One(s \in Unsent(u)) \in Int
        /\ One(s \in Unsent(u)') <= One(s \in Unsent(u))
        /\ One(s \in Unmarked(u)) \in Int
    BY <1>1 DEF One
  <2>3. /\ mails'[u] + One(s \in Excused(u)') + One(s \in Unmarked(u)) + disruptions <=
             mails[u] + One(s \in Excused(u)) + One(s \in Unmarked(u)') + disruptions'
        /\ mails'[u] + One(s \in Unsent(u)') + disruptions <=
             mails[u] + One(s \in Unsent(u)) + disruptions'
    BY <1>2, <2>0, <2>1, <2>2
  <2>. QED  BY <1>1, <2>0, <2>3, BudgetsKept
<1>5. ListedIssued' /\ OneIssuer' /\ UnissuedUnsent'
  BY <1>0, <1>1, ListsShrink
<1>. QED  BY <1>1, <1>4, <1>5 DEF DuplicateInv

\* While a row is pending, those who may still send its email and those about to
\* mark it are different holders.
LEMMA FirstMark ==
  ASSUME DuplicateInv, NEW t \in Tickets, row[t] = "pending"
  PROVE  mails[t] + Cardinality(Unsent(t)) <= disruptions + 2
<1>. DEFINE R == Unsent(t) \ cancelled
<1>1. /\ IsFiniteSet(R) /\ Cardinality(R) \in Nat
      /\ IsFiniteSet(Excused(t)) /\ Cardinality(Excused(t)) \in Nat
      /\ IsFiniteSet(Unmarked(t)) /\ Cardinality(Unmarked(t)) \in Nat
      /\ IsFiniteSet(Holders(t))
  <2>1. R \in SUBSET Senders /\ Holders(t) \in SUBSET Senders
    BY DEF Unsent, Holders
  <2>. QED  BY <2>1, SendersFinite, HolderSets
<1>2. Cardinality(Unsent(t)) = Cardinality(Excused(t)) + Cardinality(R)
  <2>1. Unsent(t) = Excused(t) \cup R /\ Excused(t) \cap R = {}
    BY DEF Excused
  <2>. HIDE DEF R
  <2>2. Cardinality(Unsent(t)) = Cardinality(Excused(t)) + Cardinality(R)
                                   - Cardinality(Excused(t) \cap R)
    BY <1>1, <2>1, FS_Union
  <2>. QED  BY <1>1, <2>1, <2>2, FS_EmptySet
<1>3. Cardinality(Unmarked(t)) + Cardinality(R) <= Cardinality(Holders(t))
  <2>1. Unmarked(t) \cup R \in SUBSET Holders(t) /\ Unmarked(t) \cap R = {}
    BY DEF Unmarked, Unsent, Holders, Handled, IsNext
  <2>. HIDE DEF R
  <2>2. Cardinality(Unmarked(t) \cup R) =
          Cardinality(Unmarked(t)) + Cardinality(R) - Cardinality(Unmarked(t) \cap R)
    BY <1>1, FS_Union
  <2>3. Cardinality(Unmarked(t) \cup R) <= Cardinality(Holders(t))
    BY <1>1, <2>1, FS_Subset
  <2>4. Cardinality(Unmarked(t) \cap R) = 0
    BY <2>1, FS_EmptySet
  <2>. QED  BY <1>1, <2>2, <2>3, <2>4
<1>4. /\ Cardinality(Holders(t)) \in Nat /\ Cardinality(Running) \in Nat
      /\ Cardinality(Holders(t)) <= 1 + Cardinality(Running)
  BY FewHolders DEF DuplicateInv
<1>5. mails[t] + Cardinality(Excused(t)) + Cardinality(Running) <=
        disruptions + 1 + Cardinality(Unmarked(t))
  BY DEF DuplicateInv, PendingBudget
<1>6. mails[t] \in Nat /\ disruptions \in Int
  BY DisruptionsAssumption DEF DuplicateInv, TypeOK
<1>. HIDE DEF R
<1>. QED  BY <1>1, <1>2, <1>3, <1>4, <1>5, <1>6

LEMMA MarkSentBudget ==
  ASSUME DuplicateInv, TypeOK', NEW s \in Senders, NEW t \in Tickets, MarkSent(s, t)
  PROVE  DuplicateInv'
<1>. USE DEF TypeOK
<1>0. /\ Advance(s, t) /\ IsNext(s, t) /\ pc[s] = "accepted"
      /\ row' = [row EXCEPT ![t] = "sent"] /\ UNCHANGED <<mails, disruptions>>
      /\ row[t] # "absent"
  BY DEF MarkSent, DuplicateInv, ListedIssued, IsNext
<1>1. /\ OnlyMoves(s) /\ IdleFree' /\ (s \in Running' => s \in Running)
      /\ \A p \in Senders : todo'[p] \subseteq todo[p]
      /\ \A u \in Tickets :
           /\ s \in Unsent(u)' => s \in Unsent(u)
           /\ s \in Excused(u)' => s \in Excused(u)
           /\ s \notin Unmarked(u)'
           /\ u # t => s \notin Unmarked(u)
  BY <1>0, AdvanceMoves DEF DuplicateInv, Handled
<1>2. ASSUME NEW u \in Tickets, u # t
      PROVE  PendingBudget(u)' /\ SentBudget(u)'
  <2>0. mails[u] \in Nat /\ mails'[u] = mails[u] /\ row'[u] = row[u]
        /\ disruptions \in Int /\ disruptions' = disruptions
    BY <1>0, <1>2, DisruptionsAssumption DEF DuplicateInv
  <2>1. /\ One(s \in Excused(u)') \in Int /\ One(s \in Excused(u)) \in Int
        /\ One(s \in Excused(u)') <= One(s \in Excused(u))
        /\ One(s \in Unsent(u)') \in Int /\ One(s \in Unsent(u)) \in Int
        /\ One(s \in Unsent(u)') <= One(s \in Unsent(u))
        /\ One(s \in Unmarked(u)) = 0 /\ One(s \in Unmarked(u)') = 0
    BY <1>1, <1>2 DEF One
  <2>2. /\ mails'[u] + One(s \in Excused(u)') + One(s \in Unmarked(u)) + disruptions <=
             mails[u] + One(s \in Excused(u)) + One(s \in Unmarked(u)') + disruptions'
        /\ mails'[u] + One(s \in Unsent(u)') + disruptions <=
             mails[u] + One(s \in Unsent(u)) + disruptions'
    BY <2>0, <2>1
  <2>. QED  BY <1>1, <2>0, <2>2, BudgetsKept
<1>3. PendingBudget(t)' /\ SentBudget(t)'
  <2>1. mails[t] + Cardinality(Unsent(t)) <= disruptions + 2
    BY <1>0, FirstMark DEF DuplicateInv, SentBudget
  <2>2. Unsent(t)' \in SUBSET Unsent(t)
    BY <1>1, OthersKept
  <2>3. /\ Cardinality(Unsent(t)') <= Cardinality(Unsent(t))
        /\ Cardinality(Unsent(t)) \in Nat /\ Cardinality(Unsent(t)') \in Nat
    <3>1. IsFiniteSet(Unsent(t)) /\ Cardinality(Unsent(t)) \in Nat
      BY HolderSets
    <3>2. IsFiniteSet(Unsent(t)') /\ Cardinality(Unsent(t)') <= Cardinality(Unsent(t))
      BY <2>2, <3>1, FS_Subset
    <3>. QED  BY <3>1, <3>2, FS_CardinalityType
  <2>4. mails[t] \in Nat /\ disruptions \in Int
    BY DisruptionsAssumption DEF DuplicateInv
  <2>5. mails'[t] + Cardinality(Unsent(t)') <= disruptions' + 2
    BY <1>0, <2>1, <2>3, <2>4
  <2>. QED  BY <1>0, <2>5 DEF PendingBudget, SentBudget, DuplicateInv
<1>4. ListedIssued' /\ OneIssuer' /\ UnissuedUnsent'
  BY <1>0, <1>1 DEF DuplicateInv, ListedIssued, OneIssuer, UnissuedUnsent, Senders
<1>. QED  BY <1>1, <1>2, <1>3, <1>4 DEF DuplicateInv

\* Steps that neither send nor mark.
LEMMA QuietBudget ==
  ASSUME DuplicateInv, TypeOK', NEW s \in Senders, OnlyMoves(s), UNCHANGED <<row, mails>>,
         disruptions <= disruptions', IdleFree', s \in Running' => s \in Running,
         \A p \in Senders : todo'[p] \subseteq todo[p],
         \A u \in Tickets :
           /\ s \in Unsent(u)' => s \in Unsent(u)
           /\ \/ /\ s \in Excused(u)' => s \in Excused(u)
                 /\ s \in Unmarked(u) => s \in Unmarked(u)'
              \/ /\ disruptions' = disruptions + 1
                 /\ ~(s \in Excused(u)' /\ s \in Unmarked(u))
  PROVE  DuplicateInv'
<1>. USE DEF TypeOK
<1>1. ASSUME NEW u \in Tickets
      PROVE  PendingBudget(u)' /\ SentBudget(u)'
  <2>1. mails[u] \in Nat /\ mails'[u] = mails[u] /\ row'[u] = row[u]
        /\ disruptions \in Int /\ disruptions' \in Int
    BY DisruptionsAssumption DEF DuplicateInv
  <2>2. /\ mails'[u] + One(s \in Excused(u)') + One(s \in Unmarked(u)) + disruptions <=
             mails[u] + One(s \in Excused(u)) + One(s \in Unmarked(u)') + disruptions'
        /\ mails'[u] + One(s \in Unsent(u)') + disruptions <=
             mails[u] + One(s \in Unsent(u)) + disruptions'
    BY <2>1 DEF One
  <2>. QED  BY <2>1, <2>2, BudgetsKept
<1>2. ListedIssued' /\ OneIssuer' /\ UnissuedUnsent'
  BY ListsShrink
<1>. QED  BY <1>1, <1>2 DEF DuplicateInv

LEMMA StopBudget ==
  ASSUME DuplicateInv, TypeOK', NEW s \in Senders,
         (\E t \in Tickets : CountAttempts(s, t)) \/ FetchCommits(s) \/ Cancel(s) \/ Crash(s)
  PROVE  DuplicateInv'
<1>. USE DEF TypeOK
<1>0. UNCHANGED <<row, mails>>
  BY DEF CountAttempts, FetchCommits, Cancel, Crash, rowVars
<1>1. OnlyMoves(s) /\ (s \in Running' => s \in Running)
  BY DEF CountAttempts, FetchCommits, Cancel, Crash, OnlyMoves, Running, DuplicateInv
<1>2. disruptions \in Int /\ disruptions <= disruptions'
  BY DisruptionsAssumption
     DEF CountAttempts, FetchCommits, Cancel, Crash, Disrupt, DuplicateInv
<1>3. \A p \in Senders : todo'[p] \subseteq todo[p]
  BY DEF CountAttempts, FetchCommits, Cancel, Crash, DuplicateInv
<1>4. IdleFree'
  <2>1. /\ pc'[s] = "idle" => todo'[s] = {}
        /\ s \in cancelled' => pc'[s] \notin {"idle", "fetching"}
    BY DEF CountAttempts, FetchCommits, Cancel, Crash, DuplicateInv, IdleFree
  <2>. QED  BY <1>1, <2>1 DEF OnlyMoves, DuplicateInv, IdleFree
<1>5. ASSUME NEW u \in Tickets
      PROVE  /\ s \in Unsent(u)' => s \in Unsent(u)
             /\ \/ /\ s \in Excused(u)' => s \in Excused(u)
                   /\ s \in Unmarked(u) => s \in Unmarked(u)'
                \/ /\ disruptions' = disruptions + 1
                   /\ ~(s \in Excused(u)' /\ s \in Unmarked(u))
  <2>1. CASE (\E t \in Tickets : CountAttempts(s, t)) \/ FetchCommits(s)
    BY <2>1 DEF CountAttempts, FetchCommits, Unsent, Excused, Unmarked, Handled, IsNext,
                DuplicateInv
  <2>2. CASE Cancel(s)
    <3>1. UNCHANGED <<pc, todo>> /\ disruptions' = disruptions + 1
      BY <2>2 DEF Cancel, Disrupt
    <3>. QED  BY <3>1 DEF Unsent, Excused, Unmarked, Handled, IsNext
  <2>3. CASE Crash(s)
    <3>1. todo'[s] = {} /\ disruptions' = disruptions + 1
      BY <2>3 DEF Crash, Disrupt, DuplicateInv
    <3>. QED  BY <3>1 DEF Unsent, Excused
  <2>. QED  BY <2>1, <2>2, <2>3
<1>. QED  BY <1>0, <1>1, <1>2, <1>3, <1>4, <1>5, QuietBudget

LEMMA IssueBudget ==
  ASSUME DuplicateInv, TypeOK', NEW w \in Workers, NEW o, IssueTickets(w, o)
  PROVE  DuplicateInv'
<1>. USE DEF TypeOK
<1>. DEFINE S == {t \in Tickets : OrderOf[t] = o}
<1>0. /\ w \in Senders /\ pc[w] = "idle" /\ todo[w] = {} /\ w \notin cancelled
      /\ pc'[w] = "sending" /\ todo'[w] = S
      /\ \A t \in Tickets : row'[t] = IF t \in S THEN "pending" ELSE row[t]
      /\ \A t \in S : row[t] = "absent"
      /\ UNCHANGED <<mails, cancelled, disruptions>>
  BY DEF IssueTickets, DuplicateInv, IdleFree, Senders
<1>1. OnlyMoves(w) /\ Running' = Running
  <2>1. \A c \in Crons : c # w /\ c \in Senders
    BY SendersAssumption DEF Senders
  <2>. QED  BY <2>1 DEF IssueTickets, OnlyMoves, Running, DuplicateInv
<1>2. \A t \in S, p \in Senders : t \notin todo[p]
  BY <1>0 DEF DuplicateInv, ListedIssued
<1>. HIDE DEF S
<1>3. ASSUME NEW t \in Tickets
      PROVE  PendingBudget(t)' /\ SentBudget(t)'
  <2>1. mails[t] \in Nat /\ disruptions \in Nat /\ mails'[t] = mails[t] /\ disruptions' = disruptions
    BY <1>0, DisruptionsAssumption DEF DuplicateInv
  <2>2. CASE t \in S
    <3>1. \A p \in Senders : p # w => t \notin todo'[p]
      BY <1>1, <1>2, <2>2 DEF OnlyMoves
    <3>2. Excused(t)' = {}
      BY <1>0, <3>1 DEF Excused, Unsent
    <3>3. mails[t] = 0
      BY <1>0, <2>2 DEF DuplicateInv, UnissuedUnsent
    <3>4. /\ Cardinality(Excused(t)') = 0 /\ Cardinality(Unmarked(t)') \in Nat
          /\ Cardinality(Unmarked(t)) = 0 /\ Cardinality(Excused(t)) \in Nat
          /\ Cardinality(Running) \in Nat
      <4>1. Unmarked(t)' \in SUBSET Senders
        BY DEF Unmarked
      <4>2. Unmarked(t) = {}
        BY <1>2, <2>2 DEF Unmarked, IsNext
      <4>. QED  BY <3>2, <4>1, <4>2, FS_EmptySet, SendersFinite, HolderSets
    <3>5. Cardinality(Running) <= disruptions + 1
      <4>1. mails[t] + Cardinality(Excused(t)) + Cardinality(Running) <=
              disruptions + 1 + Cardinality(Unmarked(t))
        BY <1>0, <2>2 DEF DuplicateInv, PendingBudget
      <4>. QED  BY <2>1, <3>3, <3>4, <4>1
    <3>6. /\ mails'[t] + Cardinality(Excused(t)') <= disruptions' + Cardinality(Unmarked(t)')
          /\ mails'[t] + Cardinality(Excused(t)') + Cardinality(Running') <=
               disruptions' + 1 + Cardinality(Unmarked(t)')
      BY <1>1, <2>1, <3>3, <3>4, <3>5
    <3>. QED  BY <1>0, <2>2, <3>6 DEF PendingBudget, SentBudget
  <2>3. CASE t \notin S
    <3>1. /\ w \notin Unsent(t) /\ w \notin Unsent(t)' /\ w \notin Excused(t) /\ w \notin Excused(t)'
          /\ w \notin Unmarked(t) /\ w \notin Unmarked(t)' /\ row'[t] = row[t]
      BY <1>0, <2>3 DEF Unsent, Excused, Unmarked
    <3>. QED  BY <1>0, <1>1, <2>1, <3>1, BudgetsKept DEF One
  <2>. QED  BY <2>2, <2>3
<1>4. IdleFree'
  BY <1>0, <1>1 DEF OnlyMoves, DuplicateInv, IdleFree
<1>5. ListedIssued' /\ UnissuedUnsent'
  BY <1>0, <1>1 DEF OnlyMoves, DuplicateInv, ListedIssued, UnissuedUnsent
<1>6. OneIssuer'
  BY <1>0, <1>1, <1>2 DEF OnlyMoves, DuplicateInv, OneIssuer, Senders
<1>. QED  BY <1>3, <1>4, <1>5, <1>6 DEF DuplicateInv

LEMMA FetchBudget ==
  ASSUME DuplicateInv, TypeOK', NEW c \in Crons, FetchPendingForRetry(c)
  PROVE  DuplicateInv'
<1>. USE DEF TypeOK
<1>. PICK b \in SUBSET Due : todo' = [todo EXCEPT ![c] = b]
  BY DEF FetchPendingForRetry
<1>0. /\ c \in Senders /\ pc[c] = "idle" /\ todo[c] = {} /\ c \notin cancelled
      /\ pc'[c] = "fetching" /\ todo'[c] = b
      /\ UNCHANGED <<row, mails, cancelled>>
      /\ (Running = {} /\ disruptions' = disruptions) \/ disruptions' = disruptions + 1
      /\ \A t \in b : t \in Tickets /\ row[t] = "pending"
  BY DEF FetchPendingForRetry, DuplicateInv, IdleFree, Senders, rowVars, Due, Disrupt
<1>1. OnlyMoves(c)
  BY <1>0 DEF FetchPendingForRetry, OnlyMoves, DuplicateInv
<1>2. ASSUME NEW t \in Tickets
      PROVE  PendingBudget(t)' /\ SentBudget(t)'
  <2>1. mails[t] \in Nat /\ disruptions \in Nat /\ disruptions' \in Nat /\ mails'[t] = mails[t]
    BY <1>0, DisruptionsAssumption DEF DuplicateInv
  <2>2. /\ c \notin Excused(t) /\ c \notin Excused(t)' /\ c \notin Unsent(t)
        /\ c \notin Unmarked(t) /\ c \notin Unmarked(t)'
        /\ row[t] = "sent" => c \notin Unsent(t)'
    BY <1>0 DEF Unsent, Excused, Unmarked
  <2>3. CASE Running = {} /\ disruptions' = disruptions
    BY <1>0, <1>1, <2>1, <2>2, <2>3, BudgetsKept DEF One
  <2>4. CASE disruptions' = disruptions + 1
    BY <1>0, <1>1, <2>1, <2>2, <2>4, BudgetsKept DEF One
  <2>. QED  BY <1>0, <2>3, <2>4
<1>3. IdleFree'
  BY <1>0, <1>1 DEF OnlyMoves, DuplicateInv, IdleFree
<1>4. ListedIssued' /\ UnissuedUnsent'
  BY <1>0, <1>1 DEF OnlyMoves, DuplicateInv, ListedIssued, UnissuedUnsent
<1>5. OneIssuer'
  <2>1. \A w \in Workers : w \in Senders /\ w # c
    BY SendersAssumption DEF Senders
  <2>. QED  BY <1>1, <2>1 DEF OnlyMoves, DuplicateInv, OneIssuer
<1>. QED  BY <1>2, <1>3, <1>4, <1>5 DEF DuplicateInv

LEMMA DuplicateStep == DuplicateInv /\ [Next]_vars => DuplicateInv'
<1>. SUFFICES ASSUME DuplicateInv, [Next]_vars PROVE DuplicateInv'
  OBVIOUS
<1>0. TypeOK'
  BY TypeStep DEF DuplicateInv
<1>1. ASSUME UNCHANGED <<row, mails, pc, todo, cancelled, disruptions>>
      PROVE  DuplicateInv'
  <2>1. /\ \A t : Unsent(t)' = Unsent(t) /\ Excused(t)' = Excused(t) /\ Unmarked(t)' = Unmarked(t)
        /\ Running' = Running
    BY <1>1 DEF Unsent, Excused, Unmarked, IsNext, Running
  <2>. QED  BY <1>0, <1>1, <2>1 DEF DuplicateInv, ListedIssued, IdleFree, OneIssuer, UnissuedUnsent,
                                    PendingBudget, SentBudget
<1>2. ASSUME NEW s \in Senders, SendStep(s) \/ \E t \in Tickets : SkipTicket(s, t)
      PROVE  DuplicateInv'
  BY <1>0, <1>2, AcceptedBudget, LostBudget, MarkSentBudget, StopBudget DEF SendStep
<1>3. ASSUME NEW c \in Crons, FetchPendingForRetry(c) \/ FetchCommits(c)
      PROVE  DuplicateInv'
  BY <1>0, <1>3, FetchBudget, StopBudget DEF Senders
<1>4. ASSUME NEW s \in Senders, Cancel(s) \/ Crash(s)
      PROVE  DuplicateInv'
  BY <1>0, <1>4, StopBudget
<1>5. ASSUME NEW w \in Workers, NEW t \in Tickets, IssueTickets(w, OrderOf[t])
      PROVE  DuplicateInv'
  BY <1>0, <1>5, IssueBudget
<1>6. CASE Tick \/ UNCHANGED vars
  BY <1>1, <1>6 DEF Tick, vars, senderVars
<1>. QED  BY <1>2, <1>3, <1>4, <1>5, <1>6 DEF Next, CronStep, Senders

LEMMA DuplicateInit == Init => DuplicateInv
<1>. SUFFICES ASSUME Init PROVE DuplicateInv
  OBVIOUS
<1>1. TypeOK
  BY TypeInit
<1>2. \A t \in Tickets : PendingBudget(t) /\ SentBudget(t)
  <2>1. /\ Running = {}
        /\ \A t : Excused(t) = {} /\ Unmarked(t) = {}
    BY DEF Init, Running, Excused, Unsent, Unmarked, Senders
  <2>. QED  BY <2>1, FS_EmptySet DEF Init, PendingBudget, SentBudget
<1>3. ListedIssued /\ IdleFree /\ OneIssuer /\ UnissuedUnsent
  BY DEF Init, ListedIssued, IdleFree, OneIssuer, UnissuedUnsent, Senders
<1>. QED  BY <1>1, <1>2, <1>3 DEF DuplicateInv

\* Nobody is emailed a ticket more often than once by the worker that issued it,
\* once by the cron, and once for each crash, cancellation, lost mark, acceptance
\* that went unnoticed or cron run that overlaps another one.
THEOREM DuplicatesBounded == Spec => []FewDuplicates
<1>1. ASSUME DuplicateInv, NEW t \in Tickets
      PROVE  mails[t] <= 2 + disruptions
  <2>1. mails[t] \in Nat /\ disruptions \in Nat /\ Cardinality(Unsent(t)) \in Nat
    BY <1>1, HolderSets, DisruptionsAssumption DEF DuplicateInv, TypeOK
  <2>2. CASE row[t] = "absent"
    BY <1>1, <2>1, <2>2 DEF DuplicateInv, UnissuedUnsent
  <2>3. CASE row[t] # "absent"
    <3>1. mails[t] + Cardinality(Unsent(t)) <= disruptions + 2
      BY <1>1, <2>3, FirstMark DEF DuplicateInv, SentBudget, TypeOK
    <3>. QED  BY <2>1, <3>1
  <2>. QED  BY <2>2, <2>3
<1>2. DuplicateInv => FewDuplicates
  BY <1>1 DEF FewDuplicates
<1>. QED  BY <1>2, DuplicateInit, DuplicateStep, PTL DEF Spec
=============================================================================
