---------------------------- MODULE RelayWorker -----------------------------
(***************************************************************************)
(* When the passes of OutboxDispatch happen: the select loop of            *)
(* DispatchOutbox.Run (internal/usecase/outbox/dispatch.go) in each        *)
(* outbox-worker process, woken by its poll ticker and by the NOTIFY       *)
(* listener (internal/infrastructure/database/listener.go) that the        *)
(* process runs beside it.                                                 *)
(*                                                                         *)
(* Durations are left out: a ticker, a backoff or the debounce timer may   *)
(* fire at any moment.  The loop of payment_event_outbox is the one below  *)
(* with a listener that is never up, since its trigger channel is nil.     *)
(***************************************************************************)
EXTENDS OutboxDispatch

VARIABLES
  called,     \* the loops that entered dispatch() and have not fetched yet
  debounce,   \* the debounce timer of each loop: "none" stands for nil
  notify,     \* the loops whose trigger channel, of capacity 1, is full
  listening,  \* the processes whose LISTEN connection is up
  wire,       \* the rows whose notification is on that connection
  announced   \* those the listener has received since the loop last fetched

loopVars     == <<called, debounce, notify>>
listenerVars == <<listening, wire, announced>>
workerVars   == <<vars, loopVars, listenerVars>>

WorkerTypeOK ==
  /\ TypeOK
  /\ called \subseteq Dispatchers
  /\ debounce \in [Dispatchers -> {"none", "armed", "fired"}]
  /\ notify \subseteq Dispatchers
  /\ listening \subseteq Dispatchers
  /\ wire \in [Dispatchers -> SUBSET Rows]
  /\ announced \in [Dispatchers -> SUBSET Rows]

WorkerInit ==
  /\ Init
  /\ called = {}
  /\ debounce = [d \in Dispatchers |-> "none"]
  /\ notify = {}
  /\ listening = {}
  /\ wire = [d \in Dispatchers |-> {}]
  /\ announced = [d \in Dispatchers |-> {}]

-----------------------------------------------------------------------------
(* The listener. *)

\* The insert's trigger calls pg_notify, which takes effect at the commit and
\* reaches the connections that listen, unless a pooler in between drops it.
\* Only an insert notifies: no other change of a row does.
EnqueueNotifies(r) ==
  /\ Enqueue(r)
  /\ \E L \in SUBSET listening :
       wire' = [d \in Dispatchers |-> IF d \in L THEN wire[d] \cup {r} ELSE wire[d]]
  /\ UNCHANGED <<loopVars, listening, announced>>

\* listenOnce connects and issues LISTEN, at the start or after a backoff.
Listen(d) ==
  /\ d \notin listening
  /\ listening' = listening \cup {d}
  /\ UNCHANGED <<vars, loopVars, wire, announced>>

\* WaitForNotification returns; the send on Notify does not block, and does
\* nothing when a value is waiting there.
Relay(d) ==
  /\ \E r \in wire[d] :
       /\ wire' = [wire EXCEPT ![d] = @ \ {r}]
       /\ announced' = [announced EXCEPT ![d] = @ \cup {r}]
  /\ notify' = notify \cup {d}
  /\ UNCHANGED <<vars, called, debounce, listening>>

\* The connection breaks: what was on it, or is notified before the next
\* LISTEN, is never heard.
ConnectionLost(d) ==
  /\ d \in listening
  /\ listening' = listening \ {d}
  /\ wire' = [wire EXCEPT ![d] = {}]
  /\ UNCHANGED <<vars, loopVars, announced>>

-----------------------------------------------------------------------------
(* The select loop. *)

InSelect(d) == pc[d] = "idle" /\ d \notin called

\* Mutant: the ticker case is forgotten once a listener is up.
SelectTickUnheard(d) ==
  /\ InSelect(d)
  /\ d \notin listening
  /\ called' = called \cup {d}
  /\ UNCHANGED <<vars, debounce, notify, listenerVars>>

SelectTick(d) ==
  /\ InSelect(d)
  /\ called' = called \cup {d}
  /\ UNCHANGED <<vars, debounce, notify, listenerVars>>

\* The timer is armed by the first notification and left alone by the others.
SelectTrigger(d) ==
  /\ InSelect(d)
  /\ d \in notify
  /\ notify' = notify \ {d}
  /\ debounce' = [debounce EXCEPT ![d] = IF @ = "none" THEN "armed" ELSE @]
  /\ UNCHANGED <<vars, called, listenerVars>>

\* Mutant: the timer is not set back to nil, so that nothing arms it again.
SelectDebounceNotReset(d) ==
  /\ InSelect(d)
  /\ debounce[d] = "armed"
  /\ debounce' = [debounce EXCEPT ![d] = "fired"]
  /\ called' = called \cup {d}
  /\ UNCHANGED <<vars, notify, listenerVars>>

SelectDebounce(d) ==
  /\ InSelect(d)
  /\ debounce[d] = "armed"
  /\ debounce' = [debounce EXCEPT ![d] = "none"]
  /\ called' = called \cup {d}
  /\ UNCHANGED <<vars, notify, listenerVars>>

SelectPrune(d) ==
  /\ InSelect(d)
  /\ DeleteOldPublished(d)
  /\ UNCHANGED <<loopVars, listenerVars>>

\* dispatch() begins: the fetch returns rows, none, or an error (which ends the
\* pass; the next one is the ticker's).
CallFetch(d) ==
  /\ d \in called
  /\ called' = called \ {d}
  /\ announced' = [announced EXCEPT ![d] = {}]
  /\ \/ FetchPending(d)
     \/ Eligible = {} /\ UNCHANGED vars
     \/ /\ "mark" \in Faults /\ disruptions < MaxDisruptions
        /\ disruptions' = disruptions + 1
        /\ UNCHANGED <<dbVars, accepted, passVars, adminVars>>
  /\ UNCHANGED <<debounce, notify, listening, wire>>

\* The rest of the pass runs inside the same case of the select.
PassStep(d) ==
  /\ \/ FetchCommits(d)
     \/ PublishBatch(d)
     \/ \E r \in Rows : MarkRetrying(d, r) \/ MarkDeadLetter(d, r) \/ MarkFails(d, r)
     \/ MarkPublished(d)
     \/ MarkPublishedFails(d)
  /\ UNCHANGED <<loopVars, listenerVars>>

\* The process is killed, or told to stop and exits, in the middle of a pass or
\* between two, and is started again.
Restart(d) ==
  /\ \/ Crash(d)
     \/ /\ "crash" \in Faults /\ disruptions < MaxDisruptions
        /\ pc[d] = "idle"
        /\ disruptions' = disruptions + 1
        /\ UNCHANGED <<dbVars, accepted, passVars, adminVars>>
  /\ called' = called \ {d}
  /\ debounce' = [debounce EXCEPT ![d] = "none"]
  /\ notify' = notify \ {d}
  /\ listening' = listening \ {d}
  /\ wire' = [wire EXCEPT ![d] = {}]
  /\ announced' = [announced EXCEPT ![d] = {}]

-----------------------------------------------------------------------------

Loop(d) ==
  \/ SelectTick(d) \/ SelectTrigger(d) \/ SelectDebounce(d) \/ SelectPrune(d)
  \/ CallFetch(d) \/ PassStep(d)

WorkerNext ==
  \/ \E r \in Rows : EnqueueNotifies(r)
  \/ \E r \in Rows : BackoffElapses(r) /\ UNCHANGED <<loopVars, listenerVars>>
  \/ \E d \in Dispatchers :
       Loop(d) \/ Restart(d) \/ Listen(d) \/ Relay(d) \/ ConnectionLost(d)
  \/ \E a \in Admins :
       (PluckDeadLetters(a) \/ ResetPicked(a)) /\ UNCHANGED <<loopVars, listenerVars>>

WorkerSpec == WorkerInit /\ [][WorkerNext]_workerVars

\* A pass that has begun goes on (as OutboxDispatch's Fairness says of the calls
\* in it), and time passes.  Go's select chooses at random among the cases that
\* are ready, so a ticker that is ready again and again is not passed over for
\* ever.  Nothing is assumed of the listener.
WorkerFairness ==
  /\ \A d \in Dispatchers :
       SF_workerVars(SelectTick(d)) /\ WF_workerVars(CallFetch(d) \/ PassStep(d))
  /\ \A r \in Rows : WF_workerVars(BackoffElapses(r) /\ UNCHANGED <<loopVars, listenerVars>>)

FairWorkerSpec == WorkerSpec /\ WorkerFairness

-----------------------------------------------------------------------------
(* Properties.  OutboxDispatch's own are checked of this specification too:  *)
(* every step of a worker is one of OutboxDispatch's, or leaves the table,   *)
(* the passes and the replays alone.                                         *)

\* A full channel and an armed timer swallow notifications without losing any:
\* whatever the listener received, a fetch that has not started yet is bound to
\* follow (listener.go and Run's comments on coalescing).
NoWakeupLost ==
  \A d \in Dispatchers :
    announced[d] # {} => d \in notify \/ debounce[d] = "armed" \/ d \in called

\* "Correctness never depends on NOTIFY arriving" (listener.go): whatever the
\* listener misses, also rows beyond the batch size and retries, which nothing
\* announces, the ticker alone gets every row settled.
PollingSuffices == \A r \in Rows : <>[](status[r] \notin Pending)
=============================================================================
