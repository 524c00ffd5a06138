------------------------- MODULE TicketNotification -------------------------
(***************************************************************************)
(* The email a buyer gets for each issued ticket: the ticket_notifications *)
(* table (internal/adapter/persistence/ticket_notification_repo.go), the   *)
(* fulfillment workers that create a row with each issued ticket and send  *)
(* its email once their transaction has committed                          *)
(* (usecase/fulfillment.IssueTickets), and the runs of                     *)
(* notification-retry-cron that send what is still unsent                  *)
(* (usecase/notification.RetryPending).                                    *)
(*                                                                         *)
(* The SMTP call cannot be part of a transaction: it sits between the      *)
(* statement that selected the row and the one that marks it.              *)
(***************************************************************************)
EXTENDS Backoff, FiniteSets

CONSTANTS
  Tickets,        \* ticket ids; the numeric order is the order (created_at, ticket_id)
  OrderOf,        \* the order each ticket belongs to
  Workers,        \* the fulfillment workers
  Crons,          \* runs of the cron; two of them overlap by a disruption only
  BatchSize,      \* NOTIFICATION_RETRY_BATCH_SIZE
  Base,           \* RETRY_BACKOFF_BASE
  Cap,            \* RETRY_BACKOFF_CAP
  Undeliverable,  \* the tickets whose address the mail server always refuses
  MaxDisruptions  \* bound on the crashes, cancellations, outages, failed statements
                  \* and cron runs started next to another one

ASSUME TicketsAssumption     == Tickets \subseteq Nat /\ IsFiniteSet(Tickets)
ASSUME SendersAssumption     == Workers \cap Crons = {} /\ IsFiniteSet(Workers \cup Crons)
ASSUME BatchAssumption       == BatchSize \in Nat \ {0}
ASSUME DelayAssumption       == Base \in Nat \ {0} /\ Cap \in Nat \ {0}
ASSUME DurationAssumption    == Cap < 2^(Width - 1)   \* it is a time.Duration
ASSUME DisruptionsAssumption == MaxDisruptions \in Nat

Senders == Workers \cup Crons

VARIABLES
  row,         \* the ticket's row: absent, pending (email_sent_timestamp IS NULL), sent
  attempts,    \* attempt_count, as far as Shift tells values apart
  wait,        \* how long next_retry_at still lies in the future
  mails,       \* how many emails of the ticket the mail server accepted
  pc,          \* where each sender is
  todo,        \* the tickets it still has to handle, in their order
  counted,     \* the attempt_count that MarkFailed has read
  cancelled,   \* the senders whose context is cancelled or past its deadline
  disruptions  \* how many there have been

rowVars    == <<row, attempts, wait>>
senderVars == <<pc, todo, counted, cancelled>>
vars       == <<row, attempts, wait, mails, pc, todo, counted, cancelled, disruptions>>

TypeOK ==
  /\ row \in [Tickets -> {"absent", "pending", "sent"}]
  /\ attempts \in [Tickets -> 0..MaxShift]
  /\ wait \in [Tickets -> 0..Cap]
  /\ mails \in [Tickets -> Nat]
  /\ pc \in [Senders -> {"idle", "fetching", "sending", "accepted", "refused", "counted"}]
  /\ todo \in [Senders -> SUBSET Tickets]
  /\ counted \in [Senders -> 0..MaxShift]
  /\ cancelled \subseteq Senders
  /\ disruptions \in 0..MaxDisruptions

Init ==
  /\ row = [t \in Tickets |-> "absent"]
  /\ attempts = [t \in Tickets |-> 0]
  /\ wait = [t \in Tickets |-> 0]
  /\ mails = [t \in Tickets |-> 0]
  /\ pc = [s \in Senders |-> "idle"]
  /\ todo = [s \in Senders |-> {}]
  /\ counted = [s \in Senders |-> 0]
  /\ cancelled = {}
  /\ disruptions = 0

Disrupt == disruptions < MaxDisruptions /\ disruptions' = disruptions + 1

\* Time passes for every row that is backing off.
Tick ==
  /\ \E t \in Tickets : wait[t] > 0
  /\ wait' = [t \in Tickets |-> IF wait[t] > 0 THEN wait[t] - 1 ELSE 0]
  /\ UNCHANGED <<row, attempts, mails, senderVars, disruptions>>

-----------------------------------------------------------------------------
(* Where the tickets to send come from. *)

\* The transaction of confirmAndIssue commits: every ticket of the order is
\* issued and has its row.  Execute then goes on to send them.  (Which replica
\* gets to issue an order is the subject of Ticketing.)
IssueTickets(w, o) ==
  LET S == {t \in Tickets : OrderOf[t] = o} IN
  /\ pc[w] = "idle"
  /\ \A t \in S : row[t] = "absent"
  /\ row' = [t \in Tickets |-> IF t \in S THEN "pending" ELSE row[t]]
  /\ todo' = [todo EXCEPT ![w] = S]
  /\ pc' = [pc EXCEPT ![w] = "sending"]
  /\ UNCHANGED <<attempts, wait, mails, counted, cancelled, disruptions>>

\* Rows locked FOR UPDATE by a FetchPendingForRetry that is still open.
Locked == UNION {todo[c] : c \in {d \in Crons : pc[d] = "fetching"}}

\* Mutants: the filter on email_sent_timestamp is gone; a row is due only once a
\* send of it has been recorded as failed.
DueTriedOnly ==
  {t \in Tickets : row[t] = "pending" /\ attempts[t] > 0 /\ wait[t] = 0} \ Locked
DueSentToo == {t \in Tickets : row[t] # "absent" /\ wait[t] = 0} \ Locked

\* The WHERE clause of FetchPendingForRetry, and SKIP LOCKED.
Due == {t \in Tickets : row[t] = "pending" /\ wait[t] = 0} \ Locked

\* The runs of the cron that are under way.
Running == {c \in Crons : pc[c] # "idle"}

\* The job's concurrencyPolicy is Forbid: the schedule starts no run next to
\* another one.  One started by hand, or while Kubernetes has lost sight of the
\* earlier one's pod, is a disruption.
FetchPendingForRetry(c) ==
  /\ pc[c] = "idle"
  /\ IF Running = {} THEN UNCHANGED disruptions ELSE Disrupt
  /\ \E b \in SUBSET Due :
       /\ b # {}
       /\ Cardinality(b) <= BatchSize
       /\ b = Due \/ Cardinality(b) = BatchSize
       /\ \A t \in b, u \in Due \ b : t < u
       /\ todo' = [todo EXCEPT ![c] = b]
  /\ pc' = [pc EXCEPT ![c] = "fetching"]
  /\ UNCHANGED <<rowVars, mails, counted, cancelled>>

\* Its transaction ends, and with it the locks, before anything is sent.
FetchCommits(c) ==
  /\ pc[c] = "fetching"
  /\ pc' = [pc EXCEPT ![c] = "sending"]
  /\ UNCHANGED <<rowVars, mails, todo, counted, cancelled, disruptions>>

-----------------------------------------------------------------------------
(* Sending one ticket: sendNotification in the worker, Send in the cron. *)

IsNext(s, t) == t \in todo[s] /\ \A u \in todo[s] : t <= u

\* The loop goes on to the next ticket; after the last one the worker's Execute
\* returns, and the cron's process exits.
Advance(s, t) ==
  /\ todo' = [todo EXCEPT ![s] = @ \ {t}]
  /\ pc' = [pc EXCEPT ![s] = IF todo[s] = {t} THEN "idle" ELSE "sending"]
  /\ counted' = [counted EXCEPT ![s] = 0]
  /\ cancelled' = IF todo[s] = {t} THEN cancelled \ {s} ELSE cancelled

\* The cron first loads the ticket, which a cancelled context prevents; the
\* worker has it in memory, and the mail library knows no context.
CanSend(s, t) == pc[s] = "sending" /\ IsNext(s, t) /\ s \notin cancelled \cap Crons

\* Mutant: a refusal of the message is taken for success.
RefusedUnnoticed(s, t) ==
  /\ CanSend(s, t)
  /\ pc' = [pc EXCEPT ![s] = "accepted"]
  /\ \/ t \in Undeliverable /\ UNCHANGED disruptions
     \/ Disrupt
  /\ UNCHANGED <<rowVars, mails, todo, counted, cancelled>>

Accepted(s, t) ==
  /\ CanSend(s, t)
  /\ t \notin Undeliverable
  /\ mails' = [mails EXCEPT ![t] = @ + 1]
  /\ pc' = [pc EXCEPT ![s] = "accepted"]
  /\ UNCHANGED <<rowVars, todo, counted, cancelled, disruptions>>

\* The server took the message and the connection broke before it answered
\* QUIT (or the end of DATA): sendMail returns that error.
AcceptedUnnoticed(s, t) ==
  /\ CanSend(s, t)
  /\ t \notin Undeliverable
  /\ Disrupt
  /\ mails' = [mails EXCEPT ![t] = @ + 1]
  /\ pc' = [pc EXCEPT ![s] = "refused"]
  /\ UNCHANGED <<rowVars, todo, counted, cancelled>>

\* The address is refused, or the server cannot be reached for a while.
Refused(s, t) ==
  /\ CanSend(s, t)
  /\ pc' = [pc EXCEPT ![s] = "refused"]
  /\ \/ t \in Undeliverable /\ UNCHANGED disruptions
     \/ Disrupt
  /\ UNCHANGED <<rowVars, mails, todo, counted, cancelled>>

\* FindByID fails: the row is left as it is.
SkipTicket(c, t) ==
  /\ pc[c] = "sending" /\ IsNext(c, t)
  /\ IF c \in cancelled THEN UNCHANGED disruptions ELSE Disrupt
  /\ Advance(c, t)
  /\ UNCHANGED <<rowVars, mails>>

MarkSent(s, t) ==
  /\ pc[s] = "accepted" /\ IsNext(s, t)
  /\ s \notin cancelled
  /\ t \notin Locked
  /\ row' = [row EXCEPT ![t] = "sent"]
  /\ wait' = [wait EXCEPT ![t] = 0]
  /\ Advance(s, t)
  /\ UNCHANGED <<attempts, mails, disruptions>>

\* MarkFailed's first statement reads attempt_count ...
CountAttempts(s, t) ==
  /\ pc[s] = "refused" /\ IsNext(s, t)
  /\ s \notin cancelled
  /\ counted' = [counted EXCEPT ![s] = attempts[t]]
  /\ pc' = [pc EXCEPT ![s] = "counted"]
  /\ UNCHANGED <<rowVars, mails, todo, cancelled, disruptions>>

\* Mutant: the delay is that of the attempt after the next.
MarkFailedTooLong(s, t) ==
  /\ pc[s] = "counted" /\ IsNext(s, t)
  /\ s \notin cancelled
  /\ t \notin Locked
  /\ attempts' = [attempts EXCEPT ![t] = Shift(@ + 1)]
  /\ \E d \in BackoffDelays(counted[s] + 2, Base, Cap) : wait' = [wait EXCEPT ![t] = d]
  /\ Advance(s, t)
  /\ UNCHANGED <<row, mails, disruptions>>

\* ... and its second one, relative to the count the row has by then, adds one
\* and sets next_retry_at from the count that was read.  A row that another
\* sender has marked sent stays sent.
MarkFailed(s, t) ==
  /\ pc[s] = "counted" /\ IsNext(s, t)
  /\ s \notin cancelled
  /\ t \notin Locked
  /\ attempts' = [attempts EXCEPT ![t] = Shift(@ + 1)]
  /\ \E d \in BackoffDelays(counted[s] + 1, Base, Cap) : wait' = [wait EXCEPT ![t] = d]
  /\ Advance(s, t)
  /\ UNCHANGED <<row, mails, disruptions>>

\* A statement of either mark fails; the error is logged and the loop goes on.
MarkLost(s, t) ==
  /\ pc[s] \in {"accepted", "refused", "counted"} /\ IsNext(s, t)
  /\ IF s \in cancelled THEN UNCHANGED disruptions ELSE Disrupt
  /\ Advance(s, t)
  /\ UNCHANGED <<rowVars, mails>>

\* SIGTERM cancels the worker's context, the 30 s of a cron run are over.
Cancel(s) ==
  /\ pc[s] \in {"sending", "accepted", "refused", "counted"}
  /\ s \notin cancelled
  /\ Disrupt
  /\ cancelled' = cancelled \cup {s}
  /\ UNCHANGED <<rowVars, mails, pc, todo, counted>>

\* The process dies.  A redelivered payment event finds the charge settled and
\* sends nothing: the tickets it had left are the cron's.
Crash(s) ==
  /\ pc[s] # "idle"
  /\ Disrupt
  /\ pc' = [pc EXCEPT ![s] = "idle"]
  /\ todo' = [todo EXCEPT ![s] = {}]
  /\ counted' = [counted EXCEPT ![s] = 0]
  /\ cancelled' = cancelled \ {s}
  /\ UNCHANGED <<rowVars, mails>>

-----------------------------------------------------------------------------

SendStep(s) ==
  \E t \in Tickets :
    \/ Accepted(s, t) \/ Refused(s, t) \/ AcceptedUnnoticed(s, t)
    \/ MarkSent(s, t) \/ CountAttempts(s, t) \/ MarkFailed(s, t) \/ MarkLost(s, t)

CronStep(c) ==
  \/ FetchPendingForRetry(c)
  \/ FetchCommits(c)
  \/ SendStep(c)
  \/ \E t \in Tickets : SkipTicket(c, t)

Next ==
  \/ Tick
  \/ \E w \in Workers : SendStep(w) \/ \E t \in Tickets : IssueTickets(w, OrderOf[t])
  \/ \E c \in Crons : CronStep(c)
  \/ \E s \in Senders : Cancel(s) \/ Crash(s)

Spec == Init /\ [][Next]_vars

\* Kubernetes starts a run every two minutes unless one is under way, the cron's
\* statements return (their context ends after 30 s), and time passes.  Nothing
\* is assumed of the workers, nor of the mail calls: sendMail dials and talks
\* without any deadline.
Fairness ==
  /\ WF_vars(Tick)
  /\ \A c \in Crons : WF_vars(pc[c] # "sending" /\ CronStep(c))

FairSpec == Spec /\ Fairness

-----------------------------------------------------------------------------
(* Properties. *)

\* The notifications are an outbox of their own: a row is marked sent only after
\* the mail server took the email, and no email is sent for a ticket whose
\* issuing did not commit.
Delivery == INSTANCE AtLeastOnceDelivery WITH
  Rows      <- Tickets,
  committed <- {t \in Tickets : row[t] # "absent"},
  delivered <- {t \in Tickets : mails[t] > 0},
  done      <- {t \in Tickets : row[t] = "sent"},
  forgotten <- {}

EmailedAtLeastOnce == Delivery!Spec

\* How many emails a buyer can get for one ticket: one from the worker, one from
\* the cron, and one more for each mark that was lost, each email whose
\* acceptance went unnoticed and each run that overlaps another one.  FOR UPDATE
\* SKIP LOCKED keeps no two senders apart, since the locks end before the first
\* email is sent; that the runs of the cron come one at a time does.
FewDuplicates == \A t \in Tickets : mails[t] <= 2 + disruptions

\* The delay documented by backoff.go: min(base*2^retryCount, cap), in numbers
\* that do not overflow.
DocumentedCeiling(n) == IF Base * 2^n < Cap THEN Base * 2^n ELSE Cap

\* A row waits no longer than the schedule gives the attempts it has on record,
\* whichever senders count and mark it at the same time and however far the
\* product overflows.
WaitsOnSchedule == \A t \in Tickets : wait[t] <= DocumentedCeiling(attempts[t])

\* As long as the cron's mail calls return and the undeliverable tickets do not
\* fill a whole batch, every other issued ticket is eventually emailed and marked,
\* whatever crashed, went unmarked or hangs in the workers in between.
EventuallyEmailed ==
  (\A c \in Crons : []<>(pc[c] # "sending")) =>
    \A t \in Tickets \ Undeliverable :
      row[t] = "pending" ~> row[t] = "sent" /\ mails[t] > 0
=============================================================================
