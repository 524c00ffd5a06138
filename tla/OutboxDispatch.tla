--------------------------- MODULE OutboxDispatch ----------------------------
(***************************************************************************)
(* The relay of one outbox table: DispatchOutbox                           *)
(* (internal/usecase/outbox/dispatch.go) over GORMOutboxRepository         *)
(* (internal/adapter/persistence/outbox_repo.go), run by the replicas of   *)
(* outbox-worker, next to the writers that enqueue rows and the            *)
(* `outbox-admin replay-dead` invocations that revive dead letters.        *)
(*                                                                         *)
(* Each SQL statement is one atomic step: the code never holds a           *)
(* transaction across two of the statements below except the one that      *)
(* FetchPending opens and commits, which is split in two because its       *)
(* SKIP LOCKED is visible to other fetches only while it is open.          *)
(***************************************************************************)
EXTENDS PublishContract, FiniteSets

CONSTANTS
  Rows,           \* row ids; the numeric order is the order (created_at, id)
  KeyOf,          \* the idempotency_key of each row
  Dispatchers,    \* the outbox-worker replicas polling this table
  Admins,         \* the invocations of outbox-admin replay-dead
  BatchSize,      \* OUTBOX_DISPATCH_BATCH_SIZE
  MaxRetries,     \* OUTBOX_MAX_RETRIES
  Faults,         \* what may go wrong: a PublishBatch fault, a crash, a failed mark
  MaxDisruptions  \* bound on the crashes and failed marks of a behaviour

ASSUME RowsAssumption        == Rows \subseteq Nat /\ IsFiniteSet(Rows)
ASSUME DispatchersAssumption == Dispatchers # {} /\ IsFiniteSet(Dispatchers)
ASSUME BatchSizeAssumption   == BatchSize \in Nat \ {0}
ASSUME MaxRetriesAssumption  == MaxRetries \in Nat \ {0}
\* A call during which the process shuts down is a Crash: nothing it returns is marked.
ASSUME FaultsAssumption      ==
  Faults \subseteq (PublishFaults \ ShutdownFaults) \cup {"crash", "mark"}
ASSUME DisruptionsAssumption == MaxDisruptions \in Nat

VARIABLES
  status,      \* the status column; ABSENT before the insert, PRUNED after the delete
  retryCount,  \* the retry_count column
  backingOff,  \* the rows whose next_retry_at lies in the future
  accepted,    \* the rows whose message the broker took responsibility for
  pc,          \* where each dispatcher is in dispatch()
  batch,       \* the rows of its pass that are not settled yet
  lastTry,     \* those fetched with RetryCount+1 >= maxRetries
  confirmed,   \* those whose entry in PublishBatch's result was nil
  adminPc,     \* where each outbox-admin invocation is
  picked,      \* the ids it plucked and has not reset yet
  disruptions  \* how many crashes and failed marks there have been

dbVars    == <<status, retryCount, backingOff>>
passVars  == <<pc, batch, lastTry, confirmed>>
adminVars == <<adminPc, picked>>
vars      == <<status, retryCount, backingOff, accepted, pc, batch, lastTry,
               confirmed, adminPc, picked, disruptions>>

Pending == {"NEW", "RETRYING"}
Stored  == Pending \cup {"PUBLISHED", "DEAD_LETTER"}

TypeOK ==
  /\ status \in [Rows -> Stored \cup {"ABSENT", "PRUNED"}]
  /\ retryCount \in [Rows -> Nat]
  /\ backingOff \subseteq Rows
  /\ accepted \subseteq Rows
  /\ pc \in [Dispatchers -> {"idle", "fetching", "publishing", "marking"}]
  /\ batch \in [Dispatchers -> SUBSET Rows]
  /\ lastTry \in [Dispatchers -> SUBSET Rows]
  /\ confirmed \in [Dispatchers -> SUBSET Rows]
  /\ adminPc \in [Admins -> {"started", "plucked", "exited"}]
  /\ picked \in [Admins -> SUBSET Rows]
  /\ disruptions \in 0..MaxDisruptions

Init ==
  /\ status = [r \in Rows |-> "ABSENT"]
  /\ retryCount = [r \in Rows |-> 0]
  /\ backingOff = {}
  /\ accepted = {}
  /\ pc = [d \in Dispatchers |-> "idle"]
  /\ batch = [d \in Dispatchers |-> {}]
  /\ lastTry = [d \in Dispatchers |-> {}]
  /\ confirmed = [d \in Dispatchers |-> {}]
  /\ adminPc = [a \in Admins |-> "started"]
  /\ picked = [a \in Admins |-> {}]
  /\ disruptions = 0

-----------------------------------------------------------------------------
(* The table. *)

IsStored(r) == status[r] \in Stored

\* Rows locked FOR UPDATE by a FetchPending transaction that is still open.
Locked == UNION {batch[d] : d \in {e \in Dispatchers : pc[e] = "fetching"}}

\* An UPDATE ... WHERE id IN (S) waits for the row locks and touches the rows
\* that still exist.
CanUpdate(S) == S \cap Locked = {}

SetStatus(S, s) ==
  status' = [r \in Rows |-> IF r \in S /\ IsStored(r) THEN s ELSE status[r]]

\* Mutant: a status that is not one of the column's values.
EnqueueBadStatus(r) ==
  /\ status[r] = "ABSENT"
  /\ status' = [status EXCEPT ![r] = "PENDING"]
  /\ UNCHANGED <<retryCount, backingOff, accepted, passVars, adminVars, disruptions>>

\* A writer's transaction commits a row.  Enqueue inserts with ON CONFLICT DO
\* NOTHING: while a row with the same key is stored the call changes nothing.
Enqueue(r) ==
  /\ status[r] = "ABSENT"
  /\ \A q \in Rows : KeyOf[q] = KeyOf[r] => ~IsStored(q)
  /\ status' = [status EXCEPT ![r] = "NEW"]
  /\ UNCHANGED <<retryCount, backingOff, accepted, passVars, adminVars, disruptions>>

\* The backoff MarkRetrying computed has passed.
BackoffElapses(r) ==
  /\ r \in backingOff
  /\ backingOff' = backingOff \ {r}
  /\ UNCHANGED <<status, retryCount, accepted, passVars, adminVars, disruptions>>

-----------------------------------------------------------------------------
(* One pass of dispatch(). *)

\* Mutant: the status filter forgets that PUBLISHED is final.
EligibleTooWide ==
  {r \in Rows : status[r] \in Stored \ {"DEAD_LETTER"} /\ r \notin backingOff} \ Locked

\* What the WHERE clause of FetchPending selects and SKIP LOCKED leaves.
Eligible == {r \in Rows : status[r] \in Pending /\ r \notin backingOff} \ Locked

\* ORDER BY created_at, id LIMIT batchSize.
IsOldestOf(b, S) ==
  /\ b \subseteq S
  /\ Cardinality(b) <= BatchSize
  /\ b = S \/ Cardinality(b) = BatchSize
  /\ \A r \in b, q \in S \ b : r < q

\* Mutants: the budget comparison is off by one, either way.
IsLastTryEarly(n) == n + 2 >= MaxRetries
IsLastTryLate(n)  == n >= MaxRetries

\* The comparison of dispatch() that chooses between the two failure marks,
\* made on the RetryCount the row had when it was fetched.
IsLastTry(n) == n + 1 >= MaxRetries

\* SELECT ... FOR UPDATE SKIP LOCKED.  (An empty result ends the pass at once.)
FetchPending(d) ==
  /\ pc[d] = "idle"
  /\ \E b \in SUBSET Eligible :
       /\ b # {}
       /\ IsOldestOf(b, Eligible)
       /\ batch' = [batch EXCEPT ![d] = b]
       /\ lastTry' = [lastTry EXCEPT ![d] = {r \in b : IsLastTry(retryCount[r])}]
  /\ pc' = [pc EXCEPT ![d] = "fetching"]
  /\ UNCHANGED <<dbVars, accepted, confirmed, adminVars, disruptions>>

\* FetchPending's own transaction commits: the row locks are gone before
\* anything is published.
FetchCommits(d) ==
  /\ pc[d] = "fetching"
  /\ pc' = [pc EXCEPT ![d] = "publishing"]
  /\ UNCHANGED <<dbVars, accepted, batch, lastTry, confirmed, adminVars, disruptions>>

PublishBatch(d) ==
  /\ pc[d] = "publishing"
  /\ \E o \in PublishOutcomes(batch[d], Faults) :
       /\ accepted' = accepted \cup o.accepted
       /\ confirmed' = [confirmed EXCEPT ![d] = batch[d] \ o.failed]
  /\ pc' = [pc EXCEPT ![d] = "marking"]
  /\ UNCHANGED <<dbVars, batch, lastTry, adminVars, disruptions>>

\* The failed messages are marked one by one, in the order of the batch.
NextFailure(d, r) ==
  /\ pc[d] = "marking"
  /\ r \in batch[d] \ confirmed[d]
  /\ \A q \in batch[d] \ confirmed[d] : r <= q

DropFromPass(d, r) ==
  /\ batch' = [batch EXCEPT ![d] = @ \ {r}]
  /\ UNCHANGED <<pc, lastTry, confirmed>>

\* Mutant: retry_count is not bumped.
MarkRetryingForever(d, r) ==
  /\ NextFailure(d, r)
  /\ r \notin lastTry[d]
  /\ CanUpdate({r})
  /\ SetStatus({r}, "RETRYING")
  /\ backingOff' = IF IsStored(r) THEN backingOff \cup {r} ELSE backingOff
  /\ DropFromPass(d, r)
  /\ UNCHANGED <<retryCount, accepted, adminVars, disruptions>>

\* MarkRetrying reads retry_count only to compute the backoff; the UPDATE itself
\* is relative to the count the row has by then.
MarkRetrying(d, r) ==
  /\ NextFailure(d, r)
  /\ r \notin lastTry[d]
  /\ CanUpdate({r})
  /\ SetStatus({r}, "RETRYING")
  /\ retryCount' = [retryCount EXCEPT ![r] = IF IsStored(r) THEN @ + 1 ELSE @]
  /\ backingOff' = IF IsStored(r) THEN backingOff \cup {r} ELSE backingOff
  /\ DropFromPass(d, r)
  /\ UNCHANGED <<accepted, adminVars, disruptions>>

MarkDeadLetter(d, r) ==
  /\ NextFailure(d, r)
  /\ r \in lastTry[d]
  /\ CanUpdate({r})
  /\ SetStatus({r}, "DEAD_LETTER")
  /\ DropFromPass(d, r)
  /\ UNCHANGED <<retryCount, backingOff, accepted, adminVars, disruptions>>

\* The statement fails; the error is logged and the pass goes on.
MarkFails(d, r) ==
  /\ "mark" \in Faults
  /\ disruptions < MaxDisruptions
  /\ NextFailure(d, r)
  /\ DropFromPass(d, r)
  /\ disruptions' = disruptions + 1
  /\ UNCHANGED <<dbVars, accepted, adminVars>>

EndPass(d) ==
  /\ pc' = [pc EXCEPT ![d] = "idle"]
  /\ batch' = [batch EXCEPT ![d] = {}]
  /\ lastTry' = [lastTry EXCEPT ![d] = {}]
  /\ confirmed' = [confirmed EXCEPT ![d] = {}]

\* One UPDATE for every message reported as published ends the pass; it is
\* skipped when there is none.
MarkPublished(d) ==
  /\ pc[d] = "marking"
  /\ batch[d] = confirmed[d]
  /\ CanUpdate(confirmed[d])
  /\ SetStatus(confirmed[d], "PUBLISHED")
  /\ EndPass(d)
  /\ UNCHANGED <<retryCount, backingOff, accepted, adminVars, disruptions>>

MarkPublishedFails(d) ==
  /\ "mark" \in Faults
  /\ disruptions < MaxDisruptions
  /\ pc[d] = "marking"
  /\ batch[d] = confirmed[d]
  /\ confirmed[d] # {}
  /\ EndPass(d)
  /\ disruptions' = disruptions + 1
  /\ UNCHANGED <<dbVars, accepted, adminVars>>

\* The worker is killed, or shutdown cancels its context (every later
\* statement of the pass then fails): the pass is abandoned, an open fetch is
\* rolled back, and a batch being written may have reached the broker in part.
Crash(d) ==
  /\ "crash" \in Faults
  /\ disruptions < MaxDisruptions
  /\ pc[d] # "idle"
  /\ \E a \in SUBSET batch[d] :
       /\ a # {} => pc[d] = "publishing"
       /\ accepted' = accepted \cup a
  /\ EndPass(d)
  /\ disruptions' = disruptions + 1
  /\ UNCHANGED <<dbVars, adminVars>>

\* Mutant: the prune takes dead letters as well.
DeleteOldSettled(d) ==
  /\ pc[d] = "idle"
  /\ \E S \in SUBSET {r \in Rows : status[r] \in {"PUBLISHED", "DEAD_LETTER"}} :
       /\ S # {}
       /\ status' = [r \in Rows |-> IF r \in S THEN "PRUNED" ELSE status[r]]
       /\ retryCount' = [r \in Rows |-> IF r \in S THEN 0 ELSE retryCount[r]]
       /\ backingOff' = backingOff \ S
  /\ UNCHANGED <<accepted, passVars, adminVars, disruptions>>

\* The hourly prune: the rows published longer ago than the retention.  Which
\* of the published rows those are is left open.
DeleteOldPublished(d) ==
  /\ pc[d] = "idle"
  /\ \E S \in SUBSET {r \in Rows : status[r] = "PUBLISHED"} :
       /\ S # {}
       /\ status' = [r \in Rows |-> IF r \in S THEN "PRUNED" ELSE status[r]]
       /\ retryCount' = [r \in Rows |-> IF r \in S THEN 0 ELSE retryCount[r]]
       /\ backingOff' = backingOff \ S
  /\ UNCHANGED <<accepted, passVars, adminVars, disruptions>>

-----------------------------------------------------------------------------
(* outbox-admin replay-dead: two statements without a transaction. *)

\* SELECT id ... WHERE status = 'DEAD_LETTER', filtered by event type and limit.
PluckDeadLetters(a) ==
  /\ adminPc[a] = "started"
  /\ \E S \in SUBSET {r \in Rows : status[r] = "DEAD_LETTER"} :
       /\ S # {}
       /\ picked' = [picked EXCEPT ![a] = S]
  /\ adminPc' = [adminPc EXCEPT ![a] = "plucked"]
  /\ UNCHANGED <<dbVars, accepted, passVars, disruptions>>

\* UPDATE ... WHERE id IN (the plucked ids), whatever their status is by now.
ResetPicked(a) ==
  /\ adminPc[a] = "plucked"
  /\ CanUpdate(picked[a])
  /\ SetStatus(picked[a], "NEW")
  /\ retryCount' = [r \in Rows |-> IF r \in picked[a] THEN 0 ELSE retryCount[r]]
  /\ backingOff' = backingOff \ picked[a]
  /\ picked' = [picked EXCEPT ![a] = {}]
  /\ adminPc' = [adminPc EXCEPT ![a] = "exited"]
  /\ UNCHANGED <<accepted, passVars, disruptions>>

-----------------------------------------------------------------------------

DispatchStep(d) ==
  \/ FetchPending(d)
  \/ FetchCommits(d)
  \/ PublishBatch(d)
  \/ \E r \in Rows : MarkRetrying(d, r) \/ MarkDeadLetter(d, r)
  \/ MarkPublished(d)

Disruption(d) ==
  \/ \E r \in Rows : MarkFails(d, r)
  \/ MarkPublishedFails(d)
  \/ Crash(d)

Next ==
  \/ \E r \in Rows : Enqueue(r) \/ BackoffElapses(r)
  \/ \E d \in Dispatchers : DispatchStep(d) \/ Disruption(d) \/ DeleteOldPublished(d)
  \/ \E a \in Admins : PluckDeadLetters(a) \/ ResetPicked(a)

Spec == Init /\ [][Next]_vars

\* Run's poll ticker starts a pass every interval whatever else happens, every
\* call in a pass ends, and time passes.  For PublishBatch that takes the 5s
\* timeout of each confirm and, since Channel.Close has none, an answer of the
\* broker to it or the end of the connection by its heartbeat (AMQPPublisher's
\* ReturnsOrHangsInClose).  Nothing obliges clients to enqueue, operators to
\* replay, or the prune to find rows.
Fairness ==
  /\ \A d \in Dispatchers : WF_vars(DispatchStep(d))
  /\ \A r \in Rows : WF_vars(BackoffElapses(r))

FairSpec == Spec /\ Fairness

-----------------------------------------------------------------------------
(* Properties. *)

\* No message is lost, as long as results are honest (no failed write after a
\* good one, no overdue confirms): a committed row leaves the states from which
\* it will be dispatched or can be replayed, and is deleted, only when the broker
\* has its message (docs/runbook.md, section 1).
NoMessageLost ==
  \A r \in Rows : status[r] \in {"PUBLISHED", "PRUNED"} => r \in accepted

\* PUBLISHED "is meant to mean the broker confirmed receipt" (docs/runbook.md,
\* section 4): the row's message is one the broker took.
PublishedMeansConfirmed ==
  \A r \in Rows : status[r] = "PUBLISHED" => r \in accepted

\* The retry budget under concurrency: dispatchers that fetched the same row
\* before either marked it each bump retry_count once from a stale copy, but a
\* row never collects more than one excess retry per additional dispatcher.
RetryBound ==
  \A r \in Rows : retryCount[r] <= MaxRetries + Cardinality(Dispatchers) - 2

\* A row is given up only after its retries are used up.  So with one dispatcher
\* and one replay at a time; a second one marks from a copy that may be stale.
DeadLetterExhausted ==
  \A r \in Rows : status[r] = "DEAD_LETTER" => retryCount[r] >= MaxRetries - 1

\* The status column moves only along the transitions that README.md and
\* migrations/outbox/000001_init.up.sql draw, plus the replay of a dead letter
\* and the deletion of a published row.
DocumentedTransition(from, to) ==
  <<from, to>> \in {<<"ABSENT", "NEW">>, <<"NEW", "PUBLISHED">>,
                    <<"NEW", "RETRYING">>, <<"RETRYING", "PUBLISHED">>,
                    <<"RETRYING", "DEAD_LETTER">>, <<"DEAD_LETTER", "NEW">>,
                    <<"PUBLISHED", "PRUNED">>}

DocumentedTransitions ==
  [][\A r \in Rows : status'[r] # status[r] =>
        DocumentedTransition(status[r], status'[r])]_status

\* The relay implements at-least-once delivery: whatever replicas, operators,
\* prunes and crashes do, a row is PUBLISHED or deleted only after the broker
\* took its message, only a committed row is ever delivered, and a deleted row
\* never comes back.
Delivery == INSTANCE AtLeastOnceDelivery WITH
  committed <- {r \in Rows : status[r] # "ABSENT"},
  delivered <- accepted,
  done      <- {r \in Rows : status[r] \in {"PUBLISHED", "PRUNED"}},
  forgotten <- {r \in Rows : status[r] = "PRUNED"}

AtLeastOnce == Delivery!Spec

\* Every row the relay takes on is eventually published or given up for good,
\* also one that a replay or another replica's late mark put back.
EventuallySettled ==
  \A r \in Rows : <>[](status[r] \notin Pending)

=============================================================================
