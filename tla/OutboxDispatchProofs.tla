------------------------ MODULE OutboxDispatchProofs -------------------------
(***************************************************************************)
(* Proofs about the relay, for any number of rows, replicas and operators  *)
(* and for any batch size and retry budget.                                *)
(*                                                                         *)
(* The inductive invariant says what a dispatcher knows about the rows of  *)
(* its pass although it holds no lock on them: they were committed, and    *)
(* those it is about to mark PUBLISHED are with the broker.  The retry     *)
(* bound needs a measure of its own: once a row's count is at the end of   *)
(* the budget, every dispatcher that still holds an older copy of the row  *)
(* may add one retry and nobody else can join them.  With one replica and  *)
(* one replay no copy is stale, and the status column moves only as it is  *)
(* documented to.                                                          *)
(***************************************************************************)
EXTENDS OutboxDispatch, FiniteSetTheorems, TLAPS

(* What every outcome of a PublishBatch call guarantees, for all batches. *)

\* The results and the broker's verdicts are about messages of the batch.
LEMMA OutcomesAboutBatch ==
  ASSUME NEW b, NEW F, NEW o \in PublishOutcomes(b, F)
  PROVE  o.failed \subseteq b /\ o.accepted \subseteq b
BY DEF PublishOutcomes

\* As long as no write fails after an earlier one of the batch succeeded, no
\* overdue confirm is read for another message and the process is not shutting
\* down, a message whose result is nil was accepted by the broker.
THEOREM OutcomesHonest ==
  ASSUME NEW b \in SUBSET Int, NEW F, F \cap ({"fire", "late"} \cup ShutdownFaults) = {},
         NEW o \in PublishOutcomes(b, F)
  PROVE  b \ o.failed \subseteq o.accepted
<1>1. CASE Answered(o, b, F)
  BY <1>1 DEF Answered, Verdicts
<1>2. CASE NoChannel(o, b)
  BY <1>2 DEF NoChannel, Outcome
<1>3. ASSUME NEW m \in b, TimedOut(o, b, m, F)
      PROVE  b \ o.failed \subseteq o.accepted
  <2>. SUFFICES ASSUME NEW q \in b, q \notin o.failed
                PROVE  q \in o.accepted
    OBVIOUS
  <2>1. m \in Int /\ q \in Int
    OBVIOUS
  <2>2. q \notin From(b, m)
    BY <1>3 DEF TimedOut
  <2>3. q \in Before(b, m)
    BY <2>1, <2>2 DEF Before, From
  <2>. QED  BY <1>3, <2>3 DEF TimedOut, Verdicts
<1>. QED  BY <1>1, <1>2, <1>3 DEF PublishOutcomes, ShutdownFaults

-----------------------------------------------------------------------------
(* The parts of the invariants. *)

PassOK ==
  \A d \in Dispatchers :
    /\ confirmed[d] \subseteq batch[d]
    /\ pc[d] # "marking" => confirmed[d] = {}
    /\ pc[d] = "idle" => batch[d] = {}

\* Whatever a pass holds was committed.
BatchCommitted ==
  \A d \in Dispatchers : \A r \in batch[d] : status[r] # "ABSENT"

\* A result of nil means the broker took the message.
ConfirmedAccepted ==
  \A d \in Dispatchers : confirmed[d] \subseteq accepted

\* The dispatchers that will bump the retry count of r if its publish failed.
Stale(r) == {d \in Dispatchers : r \in batch[d] \ lastTry[d]}

RetryRoom ==
  \A r \in Rows :
    retryCount[r] >= MaxRetries - 1 =>
      retryCount[r] + Cardinality(Stale(r)) <= MaxRetries + Cardinality(Dispatchers) - 2

TypeInv  == TypeOK /\ PassOK
SafeInv  == TypeInv /\ BatchCommitted /\ ConfirmedAccepted /\ NoMessageLost
RetryInv == TypeInv /\ RetryRoom

-----------------------------------------------------------------------------
(* Types. *)

LEMMA FetchTypes ==
  ASSUME TypeInv, NEW d \in Dispatchers, FetchPending(d)
  PROVE  TypeInv'
<1>1. PICK b \in SUBSET Eligible :
        /\ batch' = [batch EXCEPT ![d] = b]
        /\ lastTry' = [lastTry EXCEPT ![d] = {r \in b : IsLastTry(retryCount[r])}]
  BY DEF FetchPending
<1>2. b \subseteq Rows
  BY DEF Eligible
<1>3. TypeOK'
  BY <1>1, <1>2 DEF TypeInv, TypeOK, FetchPending, dbVars, adminVars
<1>4. PassOK'
  BY <1>1 DEF TypeInv, TypeOK, PassOK, FetchPending
<1>. QED  BY <1>3, <1>4 DEF TypeInv

LEMMA PublishTypes ==
  ASSUME TypeInv, NEW d \in Dispatchers, PublishBatch(d)
  PROVE  TypeInv'
<1>1. PICK o \in PublishOutcomes(batch[d], Faults) :
        /\ accepted' = accepted \cup o.accepted
        /\ confirmed' = [confirmed EXCEPT ![d] = batch[d] \ o.failed]
  BY DEF PublishBatch
<1>2. o.accepted \subseteq batch[d]
  BY OutcomesAboutBatch
<1>3. TypeOK'
  BY <1>1, <1>2 DEF TypeInv, TypeOK, PublishBatch, dbVars, adminVars
<1>4. PassOK'
  BY <1>1 DEF TypeInv, TypeOK, PassOK, PublishBatch
<1>. QED  BY <1>3, <1>4 DEF TypeInv

\* What the marks of single rows have in common.
LEMMA DropTypes ==
  ASSUME TypeInv, NEW d \in Dispatchers, NEW r \in Rows,
         NextFailure(d, r), DropFromPass(d, r)
  PROVE  /\ pc' \in [Dispatchers -> {"idle", "fetching", "publishing", "marking"}]
         /\ batch' \in [Dispatchers -> SUBSET Rows]
         /\ lastTry' \in [Dispatchers -> SUBSET Rows]
         /\ confirmed' \in [Dispatchers -> SUBSET Rows]
         /\ PassOK'
BY DEF TypeInv, TypeOK, PassOK, NextFailure, DropFromPass

LEMMA MarkTypes ==
  ASSUME TypeInv, NEW d \in Dispatchers, NEW r \in Rows,
         MarkRetrying(d, r) \/ MarkDeadLetter(d, r) \/ MarkFails(d, r)
  PROVE  TypeInv'
<1>1. CASE MarkRetrying(d, r)
  <2>1. NextFailure(d, r) /\ DropFromPass(d, r)
    BY <1>1 DEF MarkRetrying
  <2>. QED  BY <1>1, <2>1, DropTypes
            DEF TypeInv, TypeOK, MarkRetrying, SetStatus, adminVars, Stored, Pending
<1>2. CASE MarkDeadLetter(d, r)
  <2>1. NextFailure(d, r) /\ DropFromPass(d, r)
    BY <1>2 DEF MarkDeadLetter
  <2>. QED  BY <1>2, <2>1, DropTypes
            DEF TypeInv, TypeOK, MarkDeadLetter, SetStatus, adminVars, Stored, Pending
<1>3. CASE MarkFails(d, r)
  <2>1. NextFailure(d, r) /\ DropFromPass(d, r)
    BY <1>3 DEF MarkFails
  <2>2. disruptions' \in 0..MaxDisruptions
    BY <1>3, DisruptionsAssumption DEF TypeInv, TypeOK, MarkFails
  <2>. QED  BY <1>3, <2>1, <2>2, DropTypes DEF TypeInv, TypeOK, MarkFails, dbVars, adminVars
<1>. QED  BY <1>1, <1>2, <1>3

\* What the three ways a pass can end have in common.
LEMMA EndPassTypes ==
  ASSUME TypeInv, NEW d \in Dispatchers, EndPass(d)
  PROVE  /\ pc' \in [Dispatchers -> {"idle", "fetching", "publishing", "marking"}]
         /\ batch' \in [Dispatchers -> SUBSET Rows]
         /\ lastTry' \in [Dispatchers -> SUBSET Rows]
         /\ confirmed' \in [Dispatchers -> SUBSET Rows]
         /\ PassOK'
BY DEF TypeInv, TypeOK, PassOK, EndPass

LEMMA EndTypes ==
  ASSUME TypeInv, NEW d \in Dispatchers,
         MarkPublished(d) \/ MarkPublishedFails(d) \/ Crash(d)
  PROVE  TypeInv'
<1>1. CASE MarkPublished(d)
  BY <1>1, EndPassTypes
  DEF TypeInv, TypeOK, MarkPublished, SetStatus, adminVars, Stored, Pending
<1>2. CASE MarkPublishedFails(d)
  BY <1>2, EndPassTypes, DisruptionsAssumption
  DEF TypeInv, TypeOK, MarkPublishedFails, dbVars, adminVars
<1>3. CASE Crash(d)
  <2>1. PICK a \in SUBSET batch[d] : accepted' = accepted \cup a
    BY <1>3 DEF Crash
  <2>2. accepted' \subseteq Rows
    BY <2>1 DEF TypeInv, TypeOK
  <2>. QED  BY <1>3, <2>2, EndPassTypes, DisruptionsAssumption
            DEF TypeInv, TypeOK, Crash, dbVars, adminVars
<1>. QED  BY <1>1, <1>2, <1>3

LEMMA TypeStep == TypeInv /\ [Next]_vars => TypeInv'
<1>. SUFFICES ASSUME TypeInv, [Next]_vars
              PROVE  TypeInv'
  OBVIOUS
<1>1. ASSUME NEW r \in Rows, Enqueue(r) \/ BackoffElapses(r)
      PROVE  TypeInv'
  BY <1>1 DEF TypeInv, TypeOK, PassOK, Enqueue, BackoffElapses, passVars, adminVars, Stored, Pending
<1>2. ASSUME NEW d \in Dispatchers, FetchCommits(d)
      PROVE  TypeInv'
  BY <1>2 DEF TypeInv, TypeOK, PassOK, FetchCommits, dbVars, adminVars
<1>3. ASSUME NEW d \in Dispatchers, DeleteOldPublished(d)
      PROVE  TypeInv'
  BY <1>3 DEF TypeInv, TypeOK, PassOK, DeleteOldPublished, passVars, adminVars
<1>4. ASSUME NEW a \in Admins, PluckDeadLetters(a)
      PROVE  TypeInv'
  BY <1>4 DEF TypeInv, TypeOK, PassOK, PluckDeadLetters, passVars, dbVars
<1>5. ASSUME NEW a \in Admins, ResetPicked(a)
      PROVE  TypeInv'
  BY <1>5 DEF TypeInv, TypeOK, PassOK, ResetPicked, SetStatus, passVars, Stored, Pending
<1>6. CASE UNCHANGED vars
  BY <1>6 DEF TypeInv, TypeOK, PassOK, vars
<1>. QED  BY <1>1, <1>2, <1>3, <1>4, <1>5, <1>6, FetchTypes, PublishTypes, MarkTypes, EndTypes
          DEF Next, DispatchStep, Disruption

LEMMA TypeInit == Init => TypeInv
BY DisruptionsAssumption DEF Init, TypeInv, TypeOK, PassOK

\* Every reachable state is well-typed, for any rows, replicas and operators.
THEOREM TypeCorrect == Spec => []TypeOK
<1>1. TypeInv => TypeOK
  BY DEF TypeInv
<1>. QED  BY <1>1, TypeInit, TypeStep, PTL DEF Spec

-----------------------------------------------------------------------------
(* No message is lost. *)

HonestResults == Faults \cap {"fire", "late"} = {}

\* A row that was committed stays so; marks only touch stored rows.
LEMMA SetStatusKeeps ==
  ASSUME TypeInv, NEW S, NEW s \in Stored, SetStatus(S, s), NEW r \in Rows
  PROVE  /\ status'[r] = "ABSENT" <=> status[r] = "ABSENT"
         /\ status'[r] = "PRUNED" <=> status[r] = "PRUNED"
         /\ status'[r] # status[r] => r \in S /\ status'[r] = s
BY DEF SetStatus, IsStored, Stored, Pending, TypeInv, TypeOK

LEMMA PublishSafe ==
  ASSUME HonestResults, SafeInv, NEW d \in Dispatchers, PublishBatch(d)
  PROVE  BatchCommitted' /\ ConfirmedAccepted' /\ NoMessageLost'
<1>1. PICK o \in PublishOutcomes(batch[d], Faults) :
        /\ accepted' = accepted \cup o.accepted
        /\ confirmed' = [confirmed EXCEPT ![d] = batch[d] \ o.failed]
  BY DEF PublishBatch
<1>2. batch[d] \in SUBSET Int
  <2>1. batch[d] \subseteq Rows
    BY DEF SafeInv, TypeInv, TypeOK
  <2>2. \A r \in Rows : r \in Int
    BY RowsAssumption
  <2>. QED  BY <2>1, <2>2
<1>3. batch[d] \ o.failed \subseteq o.accepted
  <2>1. Faults \cap ({"fire", "late"} \cup ShutdownFaults) = {}
    BY FaultsAssumption DEF HonestResults, ShutdownFaults
  <2>. QED  BY <1>2, <2>1, OutcomesHonest
<1>4. ConfirmedAccepted'
  BY <1>1, <1>3 DEF SafeInv, TypeInv, TypeOK, ConfirmedAccepted
<1>5. BatchCommitted' /\ NoMessageLost'
  BY <1>1 DEF SafeInv, BatchCommitted, NoMessageLost, PublishBatch, dbVars
<1>. QED  BY <1>4, <1>5

LEMMA MarkSafe ==
  ASSUME SafeInv, NEW d \in Dispatchers, NEW r \in Rows,
         MarkRetrying(d, r) \/ MarkDeadLetter(d, r) \/ MarkFails(d, r)
  PROVE  BatchCommitted' /\ ConfirmedAccepted' /\ NoMessageLost'
<1>1. /\ batch' = [batch EXCEPT ![d] = @ \ {r}]
      /\ UNCHANGED <<confirmed, accepted>>
  BY DEF MarkRetrying, MarkDeadLetter, MarkFails, DropFromPass
<1>2. \A e \in Dispatchers : batch'[e] \subseteq batch[e]
  BY <1>1 DEF SafeInv, TypeInv, TypeOK
<1>3. ConfirmedAccepted'
  BY <1>1 DEF SafeInv, ConfirmedAccepted
<1>4. \A q \in Rows : /\ status[q] # "ABSENT" => status'[q] # "ABSENT"
                      /\ status'[q] \in {"PUBLISHED", "PRUNED"} =>
                           status[q] \in {"PUBLISHED", "PRUNED"}
  <2>1. CASE MarkRetrying(d, r)
    BY <2>1, SetStatusKeeps DEF MarkRetrying, SafeInv, Stored, Pending
  <2>2. CASE MarkDeadLetter(d, r)
    BY <2>2, SetStatusKeeps DEF MarkDeadLetter, SafeInv, Stored
  <2>3. CASE MarkFails(d, r)
    BY <2>3 DEF MarkFails, dbVars
  <2>. QED  BY <2>1, <2>2, <2>3
<1>5. BatchCommitted'
  BY <1>2, <1>4 DEF SafeInv, BatchCommitted, TypeInv, TypeOK
<1>6. NoMessageLost'
  BY <1>1, <1>4 DEF SafeInv, NoMessageLost
<1>. QED  BY <1>3, <1>5, <1>6

LEMMA EndSafe ==
  ASSUME SafeInv, NEW d \in Dispatchers,
         MarkPublished(d) \/ MarkPublishedFails(d) \/ Crash(d)
  PROVE  BatchCommitted' /\ ConfirmedAccepted' /\ NoMessageLost'
<1>1. EndPass(d) /\ accepted \subseteq accepted'
  BY DEF MarkPublished, MarkPublishedFails, Crash
<1>2. /\ \A e \in Dispatchers : batch'[e] \subseteq batch[e]
      /\ \A e \in Dispatchers : confirmed'[e] \subseteq confirmed[e]
  BY <1>1 DEF EndPass, SafeInv, TypeInv, TypeOK
<1>3. ConfirmedAccepted'
  BY <1>1, <1>2 DEF SafeInv, ConfirmedAccepted
<1>4. \A q \in Rows : /\ status[q] # "ABSENT" => status'[q] # "ABSENT"
                      /\ status'[q] \in {"PUBLISHED", "PRUNED"} =>
                           status[q] \in {"PUBLISHED", "PRUNED"} \/ q \in confirmed[d]
  <2>1. CASE MarkPublished(d)
    BY <2>1, SetStatusKeeps DEF MarkPublished, SafeInv, Stored
  <2>2. CASE MarkPublishedFails(d) \/ Crash(d)
    BY <2>2 DEF MarkPublishedFails, Crash, dbVars
  <2>. QED  BY <2>1, <2>2
<1>5. BatchCommitted'
  BY <1>2, <1>4 DEF SafeInv, BatchCommitted, TypeInv, TypeOK
<1>6. NoMessageLost'
  BY <1>1, <1>4 DEF SafeInv, NoMessageLost, ConfirmedAccepted
<1>. QED  BY <1>3, <1>5, <1>6

LEMMA SafeStep ==
  ASSUME HonestResults, SafeInv, [Next]_vars
  PROVE  SafeInv'
<1>1. TypeInv'
  BY TypeStep DEF SafeInv
<1>2. BatchCommitted' /\ ConfirmedAccepted' /\ NoMessageLost'
  <2>1. ASSUME NEW r \in Rows, Enqueue(r) \/ BackoffElapses(r)
        PROVE  BatchCommitted' /\ ConfirmedAccepted' /\ NoMessageLost'
    BY <2>1 DEF SafeInv, TypeInv, TypeOK, BatchCommitted, ConfirmedAccepted, NoMessageLost,
                Enqueue, BackoffElapses, passVars
  <2>2. ASSUME NEW d \in Dispatchers, FetchPending(d)
        PROVE  BatchCommitted' /\ ConfirmedAccepted' /\ NoMessageLost'
    BY <2>2 DEF SafeInv, TypeInv, TypeOK, BatchCommitted, ConfirmedAccepted, NoMessageLost,
                FetchPending, Eligible, Pending, dbVars
  <2>3. ASSUME NEW d \in Dispatchers, FetchCommits(d)
        PROVE  BatchCommitted' /\ ConfirmedAccepted' /\ NoMessageLost'
    BY <2>3 DEF SafeInv, BatchCommitted, ConfirmedAccepted, NoMessageLost, FetchCommits, dbVars
  <2>4. ASSUME NEW d \in Dispatchers, DeleteOldPublished(d)
        PROVE  BatchCommitted' /\ ConfirmedAccepted' /\ NoMessageLost'
    BY <2>4 DEF SafeInv, TypeInv, TypeOK, BatchCommitted, ConfirmedAccepted, NoMessageLost,
                DeleteOldPublished, passVars
  <2>5. ASSUME NEW a \in Admins, PluckDeadLetters(a)
        PROVE  BatchCommitted' /\ ConfirmedAccepted' /\ NoMessageLost'
    BY <2>5 DEF SafeInv, BatchCommitted, ConfirmedAccepted, NoMessageLost,
                PluckDeadLetters, dbVars, passVars
  <2>6. ASSUME NEW a \in Admins, ResetPicked(a)
        PROVE  BatchCommitted' /\ ConfirmedAccepted' /\ NoMessageLost'
    <3>1. \A r \in Rows : /\ status'[r] = "ABSENT" <=> status[r] = "ABSENT"
                          /\ status'[r] \in {"PUBLISHED", "PRUNED"} =>
                               status[r] \in {"PUBLISHED", "PRUNED"}
      BY <2>6, SetStatusKeeps DEF ResetPicked, SafeInv, Stored, Pending
    <3>. QED  BY <2>6, <3>1 DEF SafeInv, TypeInv, TypeOK, BatchCommitted,
                  ConfirmedAccepted, NoMessageLost, ResetPicked, passVars
  <2>7. CASE UNCHANGED vars
    BY <2>7 DEF SafeInv, BatchCommitted, ConfirmedAccepted, NoMessageLost, vars
  <2>. QED  BY <2>1, <2>2, <2>3, <2>4, <2>5, <2>6, <2>7, PublishSafe, MarkSafe, EndSafe
            DEF Next, DispatchStep, Disruption
<1>. QED  BY <1>1, <1>2 DEF SafeInv

LEMMA SafeInit == Init => SafeInv
BY TypeInit DEF Init, SafeInv, BatchCommitted, ConfirmedAccepted, NoMessageLost

LEMMA Safe ==
  ASSUME HonestResults
  PROVE  Spec => []SafeInv
<1>1. SafeInv /\ [Next]_vars => SafeInv'
  BY SafeStep
<1>. QED  BY <1>1, SafeInit, PTL DEF Spec

\* With honest results, no interleaving of replicas, operators, prunes, crashes
\* and failed marks makes a row PUBLISHED, or deletes it, before the broker has
\* its message.
THEOREM MessagesKept ==
  ASSUME HonestResults
  PROVE  Spec => []NoMessageLost
<1>1. SafeInv => NoMessageLost
  BY DEF SafeInv
<1>. QED  BY <1>1, Safe, PTL

-----------------------------------------------------------------------------
(* The retry budget. *)

LEMMA StaleFinite ==
  ASSUME NEW r
  PROVE  IsFiniteSet(Stale(r)) /\ Cardinality(Stale(r)) \in Nat
BY DispatchersAssumption, FS_Subset, FS_CardinalityType DEF Stale

LEMMA FewerStale ==
  ASSUME NEW r, Stale(r)' \subseteq Stale(r)
  PROVE  Cardinality(Stale(r)') \in Nat /\ Cardinality(Stale(r)') <= Cardinality(Stale(r))
BY StaleFinite, FS_Subset, FS_CardinalityType

LEMMA NumbersOK ==
  /\ MaxRetries \in Nat /\ MaxRetries >= 1
  /\ Cardinality(Dispatchers) \in Nat /\ Cardinality(Dispatchers) >= 1
BY MaxRetriesAssumption, DispatchersAssumption, FS_CardinalityType, FS_EmptySet

\* A step that neither raises a row's count nor adds a stale copy of it.
LEMMA RoomKept ==
  ASSUME RetryInv, TypeOK', NEW r \in Rows,
         retryCount'[r] <= retryCount[r], Stale(r)' \subseteq Stale(r)
  PROVE  retryCount'[r] >= MaxRetries - 1 =>
           retryCount'[r] + Cardinality(Stale(r)') <=
             MaxRetries + Cardinality(Dispatchers) - 2
<1>1. retryCount[r] \in Nat /\ retryCount'[r] \in Nat
  BY DEF RetryInv, TypeInv, TypeOK
<1>2. Cardinality(Stale(r)) \in Nat /\ Cardinality(Stale(r)') \in Nat
      /\ Cardinality(Stale(r)') <= Cardinality(Stale(r))
  BY StaleFinite, FewerStale
<1>. QED  BY <1>1, <1>2, NumbersOK DEF RetryInv, RetryRoom

LEMMA FetchRoom ==
  ASSUME RetryInv, TypeInv', NEW d \in Dispatchers, FetchPending(d)
  PROVE  RetryRoom'
<1>. SUFFICES ASSUME NEW r \in Rows, retryCount'[r] >= MaxRetries - 1
              PROVE  retryCount'[r] + Cardinality(Stale(r)') <=
                       MaxRetries + Cardinality(Dispatchers) - 2
  BY DEF RetryRoom
<1>1. PICK b \in SUBSET Eligible :
        /\ batch' = [batch EXCEPT ![d] = b]
        /\ lastTry' = [lastTry EXCEPT ![d] = {q \in b : IsLastTry(retryCount[q])}]
  BY DEF FetchPending
<1>2. retryCount' = retryCount
  BY DEF FetchPending, dbVars
<1>3. IsLastTry(retryCount[r])
  BY <1>2, NumbersOK DEF IsLastTry, RetryInv, TypeInv, TypeOK
<1>4. Stale(r)' \subseteq Stale(r)
  BY <1>1, <1>3 DEF Stale, RetryInv, TypeInv, TypeOK
<1>. QED  BY <1>2, <1>4, RoomKept DEF TypeInv, RetryInv, TypeOK

LEMMA MarkRetryingRoom ==
  ASSUME RetryInv, TypeInv', NEW d \in Dispatchers, NEW q \in Rows, MarkRetrying(d, q)
  PROVE  RetryRoom'
<1>. SUFFICES ASSUME NEW r \in Rows, retryCount'[r] >= MaxRetries - 1
              PROVE  retryCount'[r] + Cardinality(Stale(r)') <=
                       MaxRetries + Cardinality(Dispatchers) - 2
  BY DEF RetryRoom
<1>1. batch' = [batch EXCEPT ![d] = @ \ {q}] /\ lastTry' = lastTry
  BY DEF MarkRetrying, DropFromPass
<1>2. CASE r # q \/ ~IsStored(q)
  <2>1. retryCount'[r] = retryCount[r]
    BY <1>2 DEF MarkRetrying, RetryInv, TypeInv, TypeOK
  <2>2. Stale(r)' \subseteq Stale(r)
    BY <1>1 DEF Stale, RetryInv, TypeInv, TypeOK
  <2>. QED  BY <2>1, <2>2, RoomKept DEF TypeInv, RetryInv, TypeOK
<1>3. CASE r = q /\ IsStored(q)
  <2>1. retryCount[r] \in Nat /\ retryCount'[r] = retryCount[r] + 1
    BY <1>3 DEF MarkRetrying, RetryInv, TypeInv, TypeOK
  <2>2. d \in Stale(r)
    BY <1>3 DEF MarkRetrying, NextFailure, Stale
  <2>3. Stale(r)' = Stale(r) \ {d}
    BY <1>1, <1>3 DEF Stale, RetryInv, TypeInv, TypeOK
  <2>4. /\ Cardinality(Stale(r)) \in Nat
        /\ Cardinality(Stale(r)') = Cardinality(Stale(r)) - 1
    BY <2>2, <2>3, StaleFinite, FS_RemoveElement
  <2>5. Cardinality(Stale(r)) <= Cardinality(Dispatchers)
    BY DispatchersAssumption, FS_Subset DEF Stale
  <2>6. CASE retryCount[r] >= MaxRetries - 1
    BY <2>1, <2>4, <2>6, NumbersOK DEF RetryInv, RetryRoom
  <2>7. CASE retryCount[r] < MaxRetries - 1
    BY <2>1, <2>4, <2>5, <2>7, NumbersOK
  <2>. QED  BY <2>1, <2>6, <2>7, NumbersOK
<1>. QED  BY <1>2, <1>3

LEMMA RetryStep == RetryInv /\ [Next]_vars => RetryInv'
<1>. SUFFICES ASSUME RetryInv, [Next]_vars
              PROVE  RetryInv'
  OBVIOUS
<1>1. TypeInv'
  BY TypeStep DEF RetryInv
<1>2. SUFFICES ASSUME ~ \E d \in Dispatchers :
                         \/ FetchPending(d)
                         \/ \E r \in Rows : MarkRetrying(d, r)
               PROVE  RetryRoom'
  BY <1>1, FetchRoom, MarkRetryingRoom DEF RetryInv
<1>3. \A r \in Rows : retryCount'[r] <= retryCount[r] /\ Stale(r)' \subseteq Stale(r)
  <2>. SUFFICES ASSUME NEW r \in Rows
                PROVE  retryCount'[r] <= retryCount[r] /\ Stale(r)' \subseteq Stale(r)
    OBVIOUS
  <2>0. retryCount[r] \in Nat
    BY DEF RetryInv, TypeInv, TypeOK
  <2>1. ASSUME NEW q \in Rows, Enqueue(q) \/ BackoffElapses(q)
        PROVE  retryCount'[r] <= retryCount[r] /\ Stale(r)' \subseteq Stale(r)
    BY <2>0, <2>1 DEF Enqueue, BackoffElapses, passVars, Stale
  <2>2. ASSUME NEW d \in Dispatchers, FetchCommits(d) \/ PublishBatch(d)
        PROVE  retryCount'[r] <= retryCount[r] /\ Stale(r)' \subseteq Stale(r)
    BY <2>0, <2>2 DEF FetchCommits, PublishBatch, dbVars, Stale
  <2>3. ASSUME NEW d \in Dispatchers, NEW q \in Rows, MarkDeadLetter(d, q) \/ MarkFails(d, q)
        PROVE  retryCount'[r] <= retryCount[r] /\ Stale(r)' \subseteq Stale(r)
    BY <2>0, <2>3 DEF MarkDeadLetter, MarkFails, DropFromPass, dbVars, Stale,
                      RetryInv, TypeInv, TypeOK
  <2>4. ASSUME NEW d \in Dispatchers, MarkPublished(d) \/ MarkPublishedFails(d) \/ Crash(d)
        PROVE  retryCount'[r] <= retryCount[r] /\ Stale(r)' \subseteq Stale(r)
    <3>1. EndPass(d) /\ retryCount' = retryCount
      BY <2>4 DEF MarkPublished, MarkPublishedFails, Crash, dbVars
    <3>. QED  BY <2>0, <3>1 DEF EndPass, Stale, RetryInv, TypeInv, TypeOK
  <2>5. ASSUME NEW d \in Dispatchers, DeleteOldPublished(d)
        PROVE  retryCount'[r] <= retryCount[r] /\ Stale(r)' \subseteq Stale(r)
    BY <2>0, <2>5 DEF DeleteOldPublished, passVars, Stale
  <2>6. ASSUME NEW a \in Admins, PluckDeadLetters(a) \/ ResetPicked(a)
        PROVE  retryCount'[r] <= retryCount[r] /\ Stale(r)' \subseteq Stale(r)
    BY <2>0, <2>6 DEF PluckDeadLetters, ResetPicked, dbVars, passVars, Stale
  <2>7. CASE UNCHANGED vars
    BY <2>0, <2>7 DEF vars, Stale
  <2>. QED  BY <1>2, <2>1, <2>2, <2>3, <2>4, <2>5, <2>6, <2>7
            DEF Next, DispatchStep, Disruption
<1>. QED  BY <1>1, <1>3, RoomKept DEF RetryRoom, TypeInv

LEMMA RetryInit == Init => RetryInv
<1>. SUFFICES ASSUME Init PROVE RetryRoom
  BY TypeInit DEF RetryInv
<1>1. \A r \in Rows : retryCount[r] = 0 /\ Stale(r) = {}
  BY DEF Init, Stale
<1>2. \A r \in Rows : Cardinality(Stale(r)) = 0
  BY <1>1, FS_EmptySet
<1>. QED  BY <1>1, <1>2, NumbersOK DEF RetryRoom

\* However many replicas race on a row, it collects at most one retry beyond the
\* budget per additional replica.
THEOREM RetriesBounded == Spec => []RetryBound
<1>1. RetryInv => RetryBound
  <2>. SUFFICES ASSUME RetryInv, NEW r \in Rows
                PROVE  retryCount[r] <= MaxRetries + Cardinality(Dispatchers) - 2
    BY DEF RetryBound
  <2>1. retryCount[r] \in Nat /\ Cardinality(Stale(r)) \in Nat
    BY StaleFinite DEF RetryInv, TypeInv, TypeOK
  <2>. QED  BY <2>1, NumbersOK DEF RetryInv, RetryRoom
<1>. QED  BY <1>1, RetryInit, RetryStep, PTL DEF Spec

-----------------------------------------------------------------------------
(* One replica, and no more than one replay.  Nobody else then touches a row *)
(* a pass holds or a replay has plucked, so what either read still holds     *)
(* when it writes.                                                           *)

Alone ==
  /\ \A d, e \in Dispatchers : d = e
  /\ \A a, b \in Admins : a = b

\* A row held by a pass is as the fetch saw it.
HeldAsFetched ==
  \A d \in Dispatchers : \A r \in batch[d] :
    /\ status[r] \in Pending
    /\ r \in lastTry[d] <=> IsLastTry(retryCount[r])

\* A row that a replay plucked is still a dead letter.
PickedDead ==
  \A a \in Admins : \A r \in picked[a] : status[r] = "DEAD_LETTER"

\* A NEW row has its whole retry budget.
FullBudget ==
  \A r \in Rows : status[r] \in {"ABSENT", "NEW"} => retryCount[r] = 0

AloneInv ==
  /\ TypeInv
  /\ HeldAsFetched /\ PickedDead
  /\ FullBudget /\ DeadLetterExhausted

\* A step that leaves the rows of every pass alone.
LEMMA HeldKept ==
  ASSUME AloneInv,
         \A d \in Dispatchers : batch'[d] \subseteq batch[d],
         \A d \in Dispatchers : batch'[d] # {} => lastTry'[d] = lastTry[d],
         \A d \in Dispatchers : \A r \in batch'[d] :
           status'[r] = status[r] /\ retryCount'[r] = retryCount[r]
  PROVE  HeldAsFetched'
BY DEF AloneInv, HeldAsFetched, IsLastTry

LEMMA AloneFetch ==
  ASSUME AloneInv, TypeInv', NEW d \in Dispatchers, FetchPending(d)
  PROVE  AloneInv'
<1>1. PICK b \in SUBSET Eligible :
        /\ batch' = [batch EXCEPT ![d] = b]
        /\ lastTry' = [lastTry EXCEPT ![d] = {r \in b : IsLastTry(retryCount[r])}]
  BY DEF FetchPending
<1>2. UNCHANGED <<status, retryCount, picked>>
  BY DEF FetchPending, dbVars, adminVars
<1>3. HeldAsFetched'
  <2>. SUFFICES ASSUME NEW e \in Dispatchers, NEW r \in batch'[e]
                PROVE  /\ status[r] \in Pending
                       /\ r \in lastTry'[e] <=> IsLastTry(retryCount[r])
    BY <1>2 DEF HeldAsFetched, IsLastTry
  <2>1. CASE e = d
    BY <1>1, <2>1 DEF Eligible, AloneInv, TypeInv, TypeOK
  <2>2. CASE e # d
    BY <1>1, <2>2 DEF AloneInv, HeldAsFetched, TypeInv, TypeOK
  <2>. QED  BY <2>1, <2>2
<1>. QED  BY <1>2, <1>3 DEF AloneInv, PickedDead, FullBudget, DeadLetterExhausted

LEMMA AloneMark ==
  ASSUME Alone, AloneInv, TypeInv', NEW d \in Dispatchers, NEW q \in Rows,
         MarkRetrying(d, q) \/ MarkDeadLetter(d, q) \/ MarkFails(d, q)
  PROVE  AloneInv'
<1>1. /\ NextFailure(d, q) /\ DropFromPass(d, q)
      /\ UNCHANGED adminVars
  BY DEF MarkRetrying, MarkDeadLetter, MarkFails
<1>2. q \in batch[d] /\ status[q] \in Pending /\ IsStored(q)
  BY <1>1 DEF NextFailure, AloneInv, HeldAsFetched, IsStored, Stored
<1>3. \A r \in Rows : r # q => status'[r] = status[r] /\ retryCount'[r] = retryCount[r]
  BY DEF MarkRetrying, MarkDeadLetter, MarkFails, SetStatus, dbVars, AloneInv, TypeInv, TypeOK
<1>4. HeldAsFetched'
  <2>1. \A e \in Dispatchers : batch'[e] = batch[e] \ {q} /\ lastTry'[e] = lastTry[e]
    BY <1>1 DEF DropFromPass, Alone, AloneInv, TypeInv, TypeOK
  <2>2. \A e \in Dispatchers : batch[e] \subseteq Rows
    BY DEF AloneInv, TypeInv, TypeOK
  <2>. QED  BY <1>3, <2>1, <2>2, HeldKept
<1>5. PickedDead'
  <2>1. \A a \in Admins : picked'[a] = picked[a] /\ q \notin picked[a]
    BY <1>1, <1>2 DEF AloneInv, PickedDead, Pending, adminVars
  <2>. QED  BY <1>3, <2>1 DEF AloneInv, PickedDead, TypeInv, TypeOK
<1>6. /\ status'[q] \in {"ABSENT", "NEW"} => retryCount'[q] = 0
      /\ status'[q] = "DEAD_LETTER" => retryCount'[q] >= MaxRetries - 1
  <2>1. CASE MarkRetrying(d, q)
    BY <1>2, <2>1 DEF MarkRetrying, SetStatus, AloneInv, TypeInv, TypeOK
  <2>2. CASE MarkDeadLetter(d, q)
    <3>1. IsLastTry(retryCount[q]) /\ retryCount' = retryCount /\ status'[q] = "DEAD_LETTER"
      BY <1>2, <2>2 DEF MarkDeadLetter, SetStatus, AloneInv, HeldAsFetched
    <3>. QED  BY <3>1, NumbersOK DEF IsLastTry, AloneInv, TypeInv, TypeOK
  <2>3. CASE MarkFails(d, q)
    BY <2>3 DEF MarkFails, dbVars, AloneInv, FullBudget, DeadLetterExhausted
  <2>. QED  BY <2>1, <2>2, <2>3
<1>7. FullBudget' /\ DeadLetterExhausted'
  BY <1>3, <1>6 DEF AloneInv, FullBudget, DeadLetterExhausted
<1>. QED  BY <1>4, <1>5, <1>7 DEF AloneInv

LEMMA AloneEnd ==
  ASSUME Alone, AloneInv, TypeInv', NEW d \in Dispatchers,
         MarkPublished(d) \/ MarkPublishedFails(d) \/ Crash(d)
  PROVE  AloneInv'
<1>1. EndPass(d) /\ UNCHANGED <<retryCount, adminVars>>
  BY DEF MarkPublished, MarkPublishedFails, Crash, dbVars
<1>2. \A r \in Rows : status'[r] # status[r] => r \in batch[d] /\ status'[r] = "PUBLISHED"
  BY DEF MarkPublished, MarkPublishedFails, Crash, dbVars, SetStatus, IsStored
<1>3. HeldAsFetched'
  BY <1>1 DEF EndPass, Alone, HeldAsFetched, AloneInv, TypeInv, TypeOK
<1>4. PickedDead'
  <2>. SUFFICES ASSUME NEW a \in Admins, NEW r \in picked[a]
                PROVE  status'[r] = "DEAD_LETTER"
    BY <1>1 DEF PickedDead, adminVars
  <2>1. r \in Rows /\ status[r] = "DEAD_LETTER"
    BY DEF AloneInv, PickedDead, TypeInv, TypeOK
  <2>. QED  BY <1>2, <2>1 DEF AloneInv, HeldAsFetched, Pending
<1>5. FullBudget' /\ DeadLetterExhausted'
  BY <1>1, <1>2 DEF AloneInv, FullBudget, DeadLetterExhausted
<1>. QED  BY <1>3, <1>4, <1>5 DEF AloneInv

LEMMA AloneReset ==
  ASSUME Alone, AloneInv, TypeInv', NEW a \in Admins, ResetPicked(a)
  PROVE  AloneInv'
<1>1. /\ \A r \in Rows : r \notin picked[a] =>
           status'[r] = status[r] /\ retryCount'[r] = retryCount[r]
      /\ \A r \in Rows : r \in picked[a] => status'[r] = "NEW" /\ retryCount'[r] = 0
  BY DEF ResetPicked, SetStatus, IsStored, Stored, AloneInv, PickedDead
<1>2. HeldAsFetched'
  <2>1. \A d \in Dispatchers : \A r \in batch[d] : r \in Rows /\ r \notin picked[a]
    BY DEF AloneInv, HeldAsFetched, PickedDead, Pending, TypeInv, TypeOK
  <2>. QED  BY <1>1, <2>1, HeldKept DEF ResetPicked, passVars
<1>3. PickedDead'
  BY DEF ResetPicked, Alone, PickedDead, AloneInv, TypeInv, TypeOK
<1>4. FullBudget' /\ DeadLetterExhausted'
  BY <1>1 DEF AloneInv, FullBudget, DeadLetterExhausted
<1>. QED  BY <1>2, <1>3, <1>4 DEF AloneInv

LEMMA AloneStep ==
  ASSUME Alone, AloneInv, [Next]_vars
  PROVE  AloneInv'
<1>0. TypeInv'
  BY TypeStep DEF AloneInv
<1>1. ASSUME NEW r \in Rows, Enqueue(r) \/ BackoffElapses(r)
      PROVE  AloneInv'
  <2>1. /\ \A q \in Rows : status'[q] # status[q] => status[q] = "ABSENT" /\ status'[q] = "NEW"
        /\ UNCHANGED <<retryCount, batch, lastTry, picked>>
    BY <1>1 DEF Enqueue, BackoffElapses, passVars, adminVars, AloneInv, TypeInv, TypeOK
  <2>2. HeldAsFetched' /\ PickedDead'
    BY <2>1 DEF AloneInv, HeldAsFetched, PickedDead, Pending, IsLastTry, TypeInv, TypeOK
  <2>. QED  BY <1>0, <2>1, <2>2 DEF AloneInv, FullBudget, DeadLetterExhausted
<1>2. ASSUME NEW d \in Dispatchers, FetchCommits(d) \/ PublishBatch(d)
      PROVE  AloneInv'
  BY <1>0, <1>2 DEF FetchCommits, PublishBatch, dbVars, adminVars, AloneInv, HeldAsFetched,
                    IsLastTry, PickedDead, FullBudget, DeadLetterExhausted
<1>3. ASSUME NEW d \in Dispatchers, DeleteOldPublished(d)
      PROVE  AloneInv'
  <2>1. /\ \A q \in Rows : \/ status'[q] = status[q] /\ retryCount'[q] = retryCount[q]
                           \/ status[q] = "PUBLISHED" /\ status'[q] = "PRUNED"
        /\ UNCHANGED <<batch, lastTry, picked>>
    BY <1>3 DEF DeleteOldPublished, passVars, adminVars
  <2>2. HeldAsFetched' /\ PickedDead'
    BY <2>1 DEF AloneInv, HeldAsFetched, PickedDead, Pending, IsLastTry, TypeInv, TypeOK
  <2>. QED  BY <1>0, <2>1, <2>2 DEF AloneInv, FullBudget, DeadLetterExhausted
<1>4. ASSUME NEW a \in Admins, PluckDeadLetters(a)
      PROVE  AloneInv'
  <2>1. PickedDead'
    BY <1>4 DEF PluckDeadLetters, dbVars, AloneInv, PickedDead, TypeInv, TypeOK
  <2>. QED  BY <1>0, <1>4, <2>1 DEF PluckDeadLetters, dbVars, passVars, AloneInv, HeldAsFetched,
                    IsLastTry, FullBudget, DeadLetterExhausted
<1>5. CASE UNCHANGED vars
  BY <1>0, <1>5 DEF vars, AloneInv, HeldAsFetched, IsLastTry, PickedDead, FullBudget,
                    DeadLetterExhausted
<1>. QED  BY <1>0, <1>1, <1>2, <1>3, <1>4, <1>5, AloneFetch, AloneMark, AloneEnd, AloneReset
          DEF Next, DispatchStep, Disruption

LEMMA AloneInit == Init => AloneInv
BY TypeInit DEF Init, AloneInv, HeldAsFetched, PickedDead, FullBudget, DeadLetterExhausted

\* With one replica and one replay, whatever the broker answers and wherever a
\* crash falls, a dead letter has used up its retries.
THEOREM RelayDeadLetters ==
  ASSUME Alone
  PROVE  Spec => []DeadLetterExhausted
<1>1. AloneInv /\ [Next]_vars => AloneInv'
  BY AloneStep
<1>2. AloneInv => DeadLetterExhausted
  BY DEF AloneInv
<1>. QED  BY <1>1, <1>2, AloneInit, PTL DEF Spec

Documented ==
  \A r \in Rows : status'[r] # status[r] => DocumentedTransition(status[r], status'[r])

LEMMA StepDocumented ==
  ASSUME MaxRetries >= 2, AloneInv, [Next]_vars
  PROVE  Documented
<1>. SUFFICES ASSUME NEW r \in Rows, status'[r] # status[r]
              PROVE  DocumentedTransition(status[r], status'[r])
  BY DEF Documented
<1>1. ASSUME NEW q \in Rows, Enqueue(q)
      PROVE  status[r] = "ABSENT" /\ status'[r] = "NEW"
  BY <1>1 DEF Enqueue, AloneInv, TypeInv, TypeOK
<1>2. ASSUME NEW d \in Dispatchers, NEW q \in Rows, MarkRetrying(d, q)
      PROVE  status[r] = "NEW" /\ status'[r] = "RETRYING"
  BY <1>2 DEF MarkRetrying, NextFailure, SetStatus, AloneInv, HeldAsFetched, Pending
<1>3. ASSUME NEW d \in Dispatchers, NEW q \in Rows, MarkDeadLetter(d, q)
      PROVE  status[r] = "RETRYING" /\ status'[r] = "DEAD_LETTER"
  <2>1. /\ r \in batch[d] /\ r \in lastTry[d]
        /\ status'[r] = "DEAD_LETTER"
    BY <1>3 DEF MarkDeadLetter, NextFailure, SetStatus
  <2>2. status[r] \in Pending /\ IsLastTry(retryCount[r]) /\ retryCount[r] \in Nat
    BY <2>1 DEF AloneInv, HeldAsFetched, TypeInv, TypeOK
  <2>3. retryCount[r] # 0
    BY <2>2, NumbersOK DEF IsLastTry
  <2>. QED  BY <2>1, <2>2, <2>3 DEF AloneInv, FullBudget, Pending
<1>4. ASSUME NEW d \in Dispatchers, MarkPublished(d)
      PROVE  status[r] \in Pending /\ status'[r] = "PUBLISHED"
  BY <1>4 DEF MarkPublished, SetStatus, AloneInv, HeldAsFetched
<1>5. ASSUME NEW d \in Dispatchers, DeleteOldPublished(d)
      PROVE  status[r] = "PUBLISHED" /\ status'[r] = "PRUNED"
  BY <1>5 DEF DeleteOldPublished
<1>6. ASSUME NEW a \in Admins, ResetPicked(a)
      PROVE  status[r] = "DEAD_LETTER" /\ status'[r] = "NEW"
  BY <1>6 DEF ResetPicked, SetStatus, AloneInv, PickedDead
<1>. QED  BY <1>1, <1>2, <1>3, <1>4, <1>5, <1>6
          DEF DocumentedTransition, Pending, Next, DispatchStep, Disruption, BackoffElapses,
              FetchPending, FetchCommits, PublishBatch, MarkFails, MarkPublishedFails, Crash,
              PluckDeadLetters, dbVars, vars

\* With one replica and one replay, a status column moves only along the
\* documented transitions.  A budget of one attempt is excepted: the first
\* failure then makes a NEW row a dead letter.
THEOREM StatusDocumented ==
  ASSUME Alone, MaxRetries >= 2
  PROVE  Spec => DocumentedTransitions
<1>1. AloneInv /\ [Next]_vars => AloneInv'
  BY AloneStep
<1>2. AloneInv /\ [Next]_vars => [Documented]_status
  BY StepDocumented
<1>. QED  BY <1>1, <1>2, AloneInit, PTL DEF Spec, DocumentedTransitions, Documented

-----------------------------------------------------------------------------
(* The relay implements at-least-once delivery. *)

Committed == {r \in Rows : status[r] # "ABSENT"}
Done      == {r \in Rows : status[r] \in {"PUBLISHED", "PRUNED"}}
Forgotten == {r \in Rows : status[r] = "PRUNED"}

\* A mark other than PUBLISHED takes rows out of Done at most.
LEMMA Reopens ==
  ASSUME TypeInv, NEW S, NEW s \in Stored \ {"PUBLISHED"}, SetStatus(S, s),
         accepted' = accepted
  PROVE  Delivery!Reopen
<1>. DEFINE T == {r \in Rows : r \in Done /\ r \notin Forgotten /\ status'[r] # status[r]}
<1>1. T \in SUBSET (Done \ Forgotten)
  OBVIOUS
<1>2. Committed' = Committed /\ Forgotten' = Forgotten
  BY SetStatusKeeps DEF Committed, Forgotten
<1>3. Done' = Done \ T
  BY SetStatusKeeps DEF Done, Forgotten, Stored
<1>. QED  BY <1>1, <1>2, <1>3 DEF Delivery!Reopen, Committed, Done, Forgotten

LEMMA Delivers ==
  ASSUME SafeInv, NEW d \in Dispatchers, NEW S \in SUBSET batch[d],
         accepted' = accepted \cup S, status' = status
  PROVE  Delivery!Deliver
<1>1. S \in SUBSET Committed
  BY DEF SafeInv, TypeInv, TypeOK, BatchCommitted, Committed
<1>. QED  BY <1>1 DEF Delivery!Deliver, Committed

LEMMA Finishes ==
  ASSUME SafeInv, NEW d \in Dispatchers, MarkPublished(d)
  PROVE  Delivery!Finish
<1>. DEFINE T == {r \in confirmed[d] : IsStored(r)}
<1>1. T \in SUBSET (accepted \ Forgotten)
  BY DEF SafeInv, ConfirmedAccepted, IsStored, Stored, Pending, Forgotten
<1>2. \A r \in Rows : status'[r] = IF r \in T THEN "PUBLISHED" ELSE status[r]
  BY DEF MarkPublished, SetStatus
<1>3. Committed' = Committed /\ Forgotten' = Forgotten
  BY <1>2 DEF Committed, Forgotten, IsStored, Stored, Pending
<1>4. Done' = Done \cup T
  <2>1. T \subseteq Rows
    BY DEF SafeInv, ConfirmedAccepted, TypeInv, TypeOK
  <2>. QED  BY <1>2, <2>1 DEF Done
<1>5. accepted' = accepted
  BY DEF MarkPublished
<1>. QED  BY <1>1, <1>3, <1>4, <1>5 DEF Delivery!Finish, Committed, Done, Forgotten

LEMMA Forgets ==
  ASSUME SafeInv, NEW d \in Dispatchers, DeleteOldPublished(d)
  PROVE  Delivery!Forget
<1>1. PICK S \in SUBSET {r \in Rows : status[r] = "PUBLISHED"} :
        status' = [r \in Rows |-> IF r \in S THEN "PRUNED" ELSE status[r]]
  BY DEF DeleteOldPublished
<1>2. S \in SUBSET Done
  BY DEF Done
<1>3. Committed' = Committed /\ Done' = Done /\ Forgotten' = Forgotten \cup S
  BY <1>1 DEF Committed, Done, Forgotten
<1>4. accepted' = accepted
  BY DEF DeleteOldPublished
<1>. QED  BY <1>2, <1>3, <1>4 DEF Delivery!Forget, Committed, Done, Forgotten

LEMMA Commits ==
  ASSUME TypeInv, NEW r \in Rows, Enqueue(r)
  PROVE  Delivery!Commit
<1>1. {r} \in SUBSET Rows
  OBVIOUS
<1>2. Committed' = Committed \cup {r} /\ Done' = Done /\ Forgotten' = Forgotten
  BY DEF Enqueue, Committed, Done, Forgotten, TypeInv, TypeOK
<1>. QED  BY <1>1, <1>2 DEF Delivery!Commit, Committed, Done, Forgotten, Enqueue

LEMMA Simulation ==
  ASSUME SafeInv, [Next]_vars
  PROVE  [Delivery!Next]_(Delivery!vars)
<1>1. ASSUME NEW r \in Rows, Enqueue(r)
      PROVE  Delivery!Next
  BY <1>1, Commits DEF SafeInv, Delivery!Next
<1>2. ASSUME NEW d \in Dispatchers, PublishBatch(d)
      PROVE  Delivery!Next
  <2>1. PICK o \in PublishOutcomes(batch[d], Faults) : accepted' = accepted \cup o.accepted
    BY <1>2 DEF PublishBatch
  <2>2. o.accepted \in SUBSET batch[d]
    BY OutcomesAboutBatch
  <2>3. status' = status
    BY <1>2 DEF PublishBatch, dbVars
  <2>. QED  BY <2>1, <2>2, <2>3, Delivers DEF Delivery!Next
<1>3. ASSUME NEW d \in Dispatchers, NEW r \in Rows, MarkRetrying(d, r) \/ MarkDeadLetter(d, r)
      PROVE  Delivery!Next
  BY <1>3, Reopens DEF MarkRetrying, MarkDeadLetter, SafeInv, Stored, Pending, Delivery!Next
<1>4. ASSUME NEW d \in Dispatchers, MarkPublished(d)
      PROVE  Delivery!Next
  BY <1>4, Finishes DEF Delivery!Next
<1>5. ASSUME NEW d \in Dispatchers, Crash(d)
      PROVE  Delivery!Next
  <2>1. PICK a \in SUBSET batch[d] : accepted' = accepted \cup a
    BY <1>5 DEF Crash
  <2>2. status' = status
    BY <1>5 DEF Crash, dbVars
  <2>. QED  BY <2>1, <2>2, Delivers DEF Delivery!Next
<1>6. ASSUME NEW d \in Dispatchers, DeleteOldPublished(d)
      PROVE  Delivery!Next
  BY <1>6, Forgets DEF Delivery!Next
<1>7. ASSUME NEW a \in Admins, ResetPicked(a)
      PROVE  Delivery!Next
  BY <1>7, Reopens DEF ResetPicked, SafeInv, Stored, Pending, Delivery!Next
<1>8. ASSUME UNCHANGED <<status, accepted>>
      PROVE  UNCHANGED Delivery!vars
  BY <1>8 DEF Delivery!vars
<1>. QED  BY <1>1, <1>2, <1>3, <1>4, <1>5, <1>6, <1>7, <1>8
          DEF Next, DispatchStep, Disruption, BackoffElapses, FetchPending, FetchCommits,
              MarkFails, MarkPublishedFails, PluckDeadLetters, dbVars, vars

LEMMA SimulationInit == Init => Delivery!Init
BY DEF Init, Delivery!Init

\* With honest results the relay implements at-least-once delivery.
THEOREM RelayDelivers ==
  ASSUME HonestResults
  PROVE  Spec => AtLeastOnce
<1>1. SafeInv /\ [Next]_vars => [Delivery!Next]_(Delivery!vars)
  BY Simulation
<1>. QED  BY <1>1, Safe, SimulationInit, PTL DEF Spec, AtLeastOnce, Delivery!Spec
=============================================================================
