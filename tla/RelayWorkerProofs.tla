------------------------- MODULE RelayWorkerProofs ---------------------------
(***************************************************************************)
(* Proofs about the relay as outbox-worker runs it.                        *)
(*                                                                         *)
(* The select loop and the listener only decide when a pass happens: every *)
(* step is a step of OutboxDispatch, or leaves the table, the passes and   *)
(* the replays alone (WorkerRefines).  So the invariants of                *)
(* OutboxDispatchProofs hold of the worker as well, and what is left to    *)
(* show here is that coalescing notifications loses none.                  *)
(***************************************************************************)
EXTENDS RelayWorker, OutboxDispatchProofs

\* The listener's and the loop's own faults only use up the bound on faults.
Counted ==
  /\ disruptions < MaxDisruptions
  /\ disruptions' = disruptions + 1
  /\ UNCHANGED <<dbVars, accepted, passVars, adminVars>>

RelayStep == [Next]_vars \/ Counted

\* The timer is set back to nil whenever it fires: it is never left spent.
ListenerTypes ==
  /\ called \subseteq Dispatchers
  /\ debounce \in [Dispatchers -> {"none", "armed"}]
  /\ notify \subseteq Dispatchers
  /\ listening \subseteq Dispatchers
  /\ wire \in [Dispatchers -> SUBSET Rows]
  /\ announced \in [Dispatchers -> SUBSET Rows]

WorkerInv == TypeInv /\ ListenerTypes /\ NoWakeupLost

-----------------------------------------------------------------------------
(* The worker's steps are the relay's. *)

LEMMA PassStepRefines ==
  ASSUME NEW d \in Dispatchers, PassStep(d)
  PROVE  Next
BY DEF PassStep, Next, DispatchStep, Disruption

LEMMA CallFetchRefines ==
  ASSUME NEW d \in Dispatchers, CallFetch(d)
  PROVE  RelayStep
<1>1. CASE FetchPending(d)
  BY <1>1 DEF RelayStep, Next, DispatchStep
<1>2. CASE UNCHANGED vars
  BY <1>2 DEF RelayStep
<1>. QED  BY <1>1, <1>2 DEF CallFetch, RelayStep, Counted

LEMMA RestartRefines ==
  ASSUME NEW d \in Dispatchers, Restart(d)
  PROVE  RelayStep
<1>1. CASE Crash(d)
  BY <1>1 DEF RelayStep, Next, Disruption
<1>. QED  BY <1>1 DEF Restart, RelayStep, Counted

LEMMA WorkerRefines == [WorkerNext]_workerVars => RelayStep
<1>. SUFFICES ASSUME [WorkerNext]_workerVars
              PROVE  RelayStep
  OBVIOUS
<1>1. ASSUME NEW r \in Rows, EnqueueNotifies(r) \/ BackoffElapses(r)
      PROVE  RelayStep
  BY <1>1 DEF EnqueueNotifies, RelayStep, Next
<1>2. ASSUME NEW d \in Dispatchers, Loop(d)
      PROVE  RelayStep
  <2>1. CASE SelectPrune(d)
    BY <2>1 DEF SelectPrune, RelayStep, Next
  <2>2. CASE SelectTick(d) \/ SelectTrigger(d) \/ SelectDebounce(d)
    BY <2>2 DEF SelectTick, SelectTrigger, SelectDebounce, RelayStep
  <2>3. CASE PassStep(d)
    BY <2>3, PassStepRefines DEF RelayStep
  <2>. QED  BY <1>2, <2>1, <2>2, <2>3, CallFetchRefines DEF Loop
<1>3. ASSUME NEW d \in Dispatchers, Listen(d) \/ Relay(d) \/ ConnectionLost(d)
      PROVE  RelayStep
  BY <1>3 DEF Listen, Relay, ConnectionLost, RelayStep
<1>4. ASSUME NEW a \in Admins, PluckDeadLetters(a) \/ ResetPicked(a)
      PROVE  RelayStep
  BY <1>4 DEF RelayStep, Next
<1>5. CASE UNCHANGED workerVars
  BY <1>5 DEF workerVars, RelayStep
<1>. QED  BY <1>1, <1>2, <1>3, <1>4, <1>5, RestartRefines DEF WorkerNext

\* A fault that is only counted disturbs none of the relay's invariants.
LEMMA CountedTypes == TypeInv /\ Counted => TypeInv'
BY DisruptionsAssumption
DEF Counted, TypeInv, TypeOK, PassOK, dbVars, passVars, adminVars

LEMMA WorkerRelayTypes == TypeInv /\ [WorkerNext]_workerVars => TypeInv'
BY WorkerRefines, CountedTypes, TypeStep DEF RelayStep

-----------------------------------------------------------------------------
(* Notifications. *)

LEMMA ListenerTypesStep ==
  ASSUME ListenerTypes, [WorkerNext]_workerVars
  PROVE  ListenerTypes'
<1>1. ASSUME NEW r \in Rows, EnqueueNotifies(r)
      PROVE  ListenerTypes'
  BY <1>1 DEF EnqueueNotifies, ListenerTypes, loopVars
<1>2. ASSUME NEW d \in Dispatchers, Loop(d)
      PROVE  ListenerTypes'
  <2>1. CASE SelectTick(d) \/ SelectTrigger(d) \/ SelectDebounce(d)
    BY <2>1 DEF SelectTick, SelectTrigger, SelectDebounce, ListenerTypes, listenerVars
  <2>2. CASE SelectPrune(d) \/ PassStep(d)
    BY <2>2 DEF SelectPrune, PassStep, ListenerTypes, loopVars, listenerVars
  <2>3. CASE CallFetch(d)
    BY <2>3 DEF CallFetch, ListenerTypes
  <2>. QED  BY <1>2, <2>1, <2>2, <2>3 DEF Loop
<1>3. ASSUME NEW d \in Dispatchers, Restart(d)
      PROVE  ListenerTypes'
  BY <1>3 DEF Restart, ListenerTypes
<1>4. ASSUME NEW d \in Dispatchers, Listen(d) \/ ConnectionLost(d)
      PROVE  ListenerTypes'
  BY <1>4 DEF Listen, ConnectionLost, ListenerTypes, loopVars
<1>5. ASSUME NEW d \in Dispatchers, Relay(d)
      PROVE  ListenerTypes'
  BY <1>5 DEF Relay, ListenerTypes
<1>6. CASE UNCHANGED <<loopVars, listenerVars>>
  BY <1>6 DEF ListenerTypes, loopVars, listenerVars
<1>. QED  BY <1>1, <1>2, <1>3, <1>4, <1>5, <1>6 DEF WorkerNext, workerVars

\* A notification goes from the channel to the timer and from there to the pass,
\* and is forgotten only by the fetch it led to or with the process itself.
LEMMA WakeupStep ==
  ASSUME ListenerTypes, NoWakeupLost, [WorkerNext]_workerVars
  PROVE  NoWakeupLost'
<1>. SUFFICES ASSUME NEW e \in Dispatchers, announced'[e] # {}
              PROVE  e \in notify' \/ debounce'[e] = "armed" \/ e \in called'
  BY DEF NoWakeupLost
<1>. DEFINE Woken == e \in notify \/ debounce[e] = "armed" \/ e \in called
<1>1. announced[e] # {} => Woken
  BY DEF NoWakeupLost
<1>2. ASSUME NEW r \in Rows, EnqueueNotifies(r)
      PROVE  e \in notify' \/ debounce'[e] = "armed" \/ e \in called'
  BY <1>1, <1>2 DEF EnqueueNotifies, loopVars
<1>3. ASSUME NEW d \in Dispatchers, SelectTick(d)
      PROVE  e \in notify' \/ debounce'[e] = "armed" \/ e \in called'
  BY <1>1, <1>3 DEF SelectTick, listenerVars
<1>4. ASSUME NEW d \in Dispatchers, SelectTrigger(d)
      PROVE  e \in notify' \/ debounce'[e] = "armed" \/ e \in called'
  BY <1>1, <1>4 DEF SelectTrigger, listenerVars, ListenerTypes
<1>5. ASSUME NEW d \in Dispatchers, SelectDebounce(d)
      PROVE  e \in notify' \/ debounce'[e] = "armed" \/ e \in called'
  BY <1>1, <1>5 DEF SelectDebounce, listenerVars, ListenerTypes
<1>6. ASSUME NEW d \in Dispatchers, CallFetch(d) \/ Restart(d)
      PROVE  e \in notify' \/ debounce'[e] = "armed" \/ e \in called'
  <2>1. e # d
    BY <1>6 DEF CallFetch, Restart, ListenerTypes
  <2>. QED  BY <1>1, <1>6, <2>1 DEF CallFetch, Restart, ListenerTypes
<1>7. ASSUME NEW d \in Dispatchers, Relay(d)
      PROVE  e \in notify' \/ debounce'[e] = "armed" \/ e \in called'
  <2>1. CASE e = d
    BY <1>7, <2>1 DEF Relay
  <2>2. CASE e # d
    BY <1>1, <1>7, <2>2 DEF Relay, ListenerTypes
  <2>. QED  BY <2>1, <2>2
<1>8. ASSUME NEW d \in Dispatchers, Listen(d) \/ ConnectionLost(d)
      PROVE  e \in notify' \/ debounce'[e] = "armed" \/ e \in called'
  BY <1>1, <1>8 DEF Listen, ConnectionLost, loopVars
<1>9. CASE UNCHANGED <<loopVars, listenerVars>>
  BY <1>1, <1>9 DEF loopVars, listenerVars
<1>. QED  BY <1>2, <1>3, <1>4, <1>5, <1>6, <1>7, <1>8, <1>9
          DEF WorkerNext, Loop, SelectPrune, PassStep, workerVars

LEMMA WorkerInvInit == WorkerInit => WorkerInv
BY TypeInit DEF WorkerInit, WorkerInv, ListenerTypes, NoWakeupLost

LEMMA WorkerSafe == WorkerSpec => []WorkerInv
<1>1. WorkerInv /\ [WorkerNext]_workerVars => WorkerInv'
  BY WorkerRelayTypes, ListenerTypesStep, WakeupStep DEF WorkerInv
<1>. QED  BY <1>1, WorkerInvInit, PTL DEF WorkerSpec

\* Every reachable state of the workers, their listeners included, is well-typed.
THEOREM WorkerTypes == WorkerSpec => []WorkerTypeOK
<1>1. WorkerInv => WorkerTypeOK
  BY DEF WorkerInv, TypeInv, ListenerTypes, WorkerTypeOK
<1>. QED  BY <1>1, WorkerSafe, PTL

\* However notifications are coalesced, by the full channel or by the armed
\* timer, and whenever connections break or processes restart, what a listener
\* received is followed by a fetch that has not begun yet.
THEOREM WakeupsKept == WorkerSpec => []NoWakeupLost
<1>1. WorkerInv => NoWakeupLost
  BY DEF WorkerInv
<1>. QED  BY <1>1, WorkerSafe, PTL

-----------------------------------------------------------------------------
(* What the relay promises, of the workers that run it. *)

LEMMA WorkerAlone ==
  ASSUME Alone
  PROVE  WorkerSpec => []AloneInv
<1>1. AloneInv /\ Counted => AloneInv'
  BY CountedTypes DEF Counted, dbVars, passVars, adminVars, AloneInv, HeldAsFetched, IsLastTry,
                      PickedDead, FullBudget, DeadLetterExhausted
<1>2. AloneInv /\ [WorkerNext]_workerVars => AloneInv'
  BY <1>1, WorkerRefines, AloneStep DEF RelayStep
<1>3. WorkerInit => AloneInv
  BY AloneInit DEF WorkerInit
<1>. QED  BY <1>2, <1>3, PTL DEF WorkerSpec

\* One worker process and one replay: a dead letter has used up its retries, also
\* when passes are triggered by notifications and cut short by restarts.
THEOREM WorkerDeadLetters ==
  ASSUME Alone
  PROVE  WorkerSpec => []DeadLetterExhausted
<1>1. AloneInv => DeadLetterExhausted
  BY DEF AloneInv
<1>. QED  BY <1>1, WorkerAlone, PTL

\* One worker process and one replay: the status column moves only along the
\* documented transitions, provided that a row is tried more than once.
THEOREM WorkerDocumented ==
  ASSUME Alone, MaxRetries >= 2
  PROVE  WorkerSpec => DocumentedTransitions
<1>1. AloneInv /\ [WorkerNext]_workerVars => [Documented]_status
  BY WorkerRefines, StepDocumented DEF RelayStep, Counted, dbVars
<1>. QED  BY <1>1, WorkerAlone, PTL DEF WorkerSpec, DocumentedTransitions, Documented

\* Any number of worker processes: with honest results the loop, the listener and
\* the passes together implement at-least-once delivery.
THEOREM WorkersDeliver ==
  ASSUME HonestResults
  PROVE  WorkerSpec => AtLeastOnce
<1>1. SafeInv /\ Counted => SafeInv' /\ UNCHANGED Delivery!vars
  BY CountedTypes DEF Counted, dbVars, passVars, adminVars, SafeInv, BatchCommitted,
                      ConfirmedAccepted, NoMessageLost, Delivery!vars
<1>2. SafeInv /\ [WorkerNext]_workerVars => SafeInv' /\ [Delivery!Next]_(Delivery!vars)
  BY <1>1, WorkerRefines, SafeStep, Simulation DEF RelayStep
<1>3. WorkerInit => SafeInv /\ Delivery!Init
  BY SafeInit, SimulationInit DEF WorkerInit
<1>. QED  BY <1>2, <1>3, PTL DEF WorkerSpec, AtLeastOnce, Delivery!Spec
=============================================================================
