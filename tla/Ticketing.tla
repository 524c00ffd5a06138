------------------------------ MODULE Ticketing ------------------------------
(***************************************************************************)
(* The events database: orders, charges and tickets.                       *)
(*                                                                         *)
(* order-consumer-worker turns an order message into an order, RESERVED    *)
(* tickets and a PENDING charge (usecase/checkout/process_order.go);       *)
(* fulfillment-consumer-worker replicas apply the payment gateway's        *)
(* events to them (usecase/fulfillment/issue_tickets.go); tickets-api      *)
(* checks tickets in and corrects holder names (usecase/checkin,           *)
(* usecase/ticketholder).  Messages come at least once and in any order.   *)
(*                                                                         *)
(* A transaction is one step where its row locks make it one: two          *)
(* transactions on a charge meet at the UPDATE of the charge, which both   *)
(* do first.  What is read before a transaction starts is a step before.   *)
(***************************************************************************)
EXTENDS Naturals, Sequences

CONSTANTS
  Orders,         \* source order ids
  TicketIds,      \* source ticket ids
  Items,          \* the tickets of each order
  Workers,        \* fulfillment-consumer-worker replicas
  Clients,        \* concurrent requests to tickets-api
  OneOutcome,     \* TRUE if the gateway reports one outcome per checkout session
  MaxSessions,    \* bound on the checkout sessions opened at the gateway
  MaxDisruptions  \* bound on rolled back transactions and redelivered messages

ASSUME ItemsAssumption      == Items \in [Orders -> SUBSET TicketIds]
ASSUME OneOutcomeAssumption == OneOutcome \in BOOLEAN
ASSUME BoundsAssumption     == MaxSessions \in Nat /\ MaxDisruptions \in Nat

VARIABLES
  order,       \* status of each order, "none" if there is no row
  charge,      \* of each order, its charge: provider_ref and status
  ticket,      \* of each ticket id, the order that reserved it and its status
  sessions,    \* the gateway's sessions: of each provider_ref, the order
  inTx,        \* of each order, what a ProcessOrder in progress has not committed yet:
               \* the session it has opened and the tickets it has inserted
  inbox,       \* payment events waiting in the shard's queue
  reported,    \* history: the events the gateway sent
  dead,        \* the events in the DLQ
  work,        \* the event each replica is about to apply, as a set of at most one
  request,     \* what each client request has read: <<>> or <<operation, ticket>>
  admitted,    \* history: how many requests answered CHECKED_IN for each ticket
  renamed,     \* history: the tickets whose holder name was corrected
  disruptions

dbVars   == <<order, charge, ticket>>
payVars  == <<inbox, reported, dead, work>>
apiVars  == <<request, admitted, renamed>>
vars     == <<order, charge, ticket, sessions, inTx, inbox, reported, dead, work,
              request, admitted, renamed, disruptions>>

OrderStatuses  == {"RESERVED", "PAID", "FAILED"}  \* PENDING is never committed
ChargeStatuses == {"PENDING", "PAID", "FAILED"}
TicketStatuses == {"RESERVED", "VALID", "VOID", "CHECKED_IN"}

NoOrder  == "no order"
ASSUME NoOrderAssumption == NoOrder \notin Orders

NoCharge == [ref |-> 0, status |-> "none"]
NoTicket == [order |-> NoOrder, status |-> "none"]
NoTx     == [ref |-> 0, tickets |-> {}]
Events   == [ref : 1..MaxSessions, outcome : {"CONFIRMED", "FAILED"}]

TypeOK ==
  /\ order \in [Orders -> {"none"} \cup OrderStatuses]
  /\ charge \in [Orders -> {NoCharge} \cup
                           [ref : 1..MaxSessions, status : ChargeStatuses]]
  /\ ticket \in [TicketIds -> {NoTicket} \cup
       [order : Orders, status : TicketStatuses]]
  /\ sessions \in Seq(Orders) /\ Len(sessions) <= MaxSessions
  /\ inTx \in [Orders -> {NoTx} \cup [ref : 1..MaxSessions, tickets : SUBSET TicketIds]]
  /\ inbox \subseteq reported /\ dead \subseteq reported /\ reported \subseteq Events
  /\ work \in [Workers -> SUBSET reported]
  /\ request \in [Clients -> {<<>>} \cup ({"checkin", "rename"} \X TicketIds)]
  /\ admitted \in [TicketIds -> Nat] /\ renamed \subseteq TicketIds
  /\ disruptions \in 0..MaxDisruptions

Init ==
  /\ order = [o \in Orders |-> "none"]
  /\ charge = [o \in Orders |-> NoCharge]
  /\ ticket = [t \in TicketIds |-> NoTicket]
  /\ sessions = <<>> /\ inTx = [o \in Orders |-> NoTx]
  /\ inbox = {} /\ reported = {} /\ dead = {}
  /\ work = [w \in Workers |-> {}]
  /\ request = [c \in Clients |-> <<>>]
  /\ admitted = [t \in TicketIds |-> 0] /\ renamed = {}
  /\ disruptions = 0

Disrupt == disruptions < MaxDisruptions /\ disruptions' = disruptions + 1

-----------------------------------------------------------------------------
(* ProcessOrder.Execute *)

\* orderRepo.Save creates the order: no row has its source_order_id, nor does one
\* that another transaction has inserted.
SaveCreates(o) == order[o] = "none" /\ inTx[o] = NoTx

\* ReserveForOrder: ON CONFLICT DO NOTHING, whatever the row is that is there.
ReserveForOrder(o) == {t \in Items[o] : ticket[t] = NoTicket}

\* The transaction up to CreateCheckout.  For a redelivered message Save creates
\* nothing, and there is nothing more to do.  A transaction waits for the end of
\* another one that has inserted a row it conflicts with.
OpenCheckout(o) ==
  /\ SaveCreates(o)
  /\ \A p \in Orders : inTx[p].tickets \cap Items[o] = {}
  /\ Len(sessions) < MaxSessions
  /\ sessions' = Append(sessions, o)
  /\ inTx' = [inTx EXCEPT ![o] = [ref |-> Len(sessions) + 1, tickets |-> ReserveForOrder(o)]]
  /\ UNCHANGED <<dbVars, payVars, apiVars, disruptions>>

\* Mutant: the tickets are inserted without a status.
InsertTicketsBlank(o) ==
  ticket' = [t \in TicketIds |->
              IF t \in inTx[o].tickets THEN [order |-> o, status |-> "none"] ELSE ticket[t]]

InsertTickets(o) ==
  ticket' = [t \in TicketIds |->
              IF t \in inTx[o].tickets THEN [order |-> o, status |-> "RESERVED"] ELSE ticket[t]]

SaveCharge(o) == charge' = [charge EXCEPT ![o] = [ref |-> inTx[o].ref, status |-> "PENDING"]]

\* Orders, by id and whatever the status is by then.
UpdateOrderStatus(o, status) == order' = [order EXCEPT ![o] = status]

\* CreateCheckout has returned, and the transaction commits.
CommitOrder(o) ==
  /\ inTx[o] # NoTx
  /\ UpdateOrderStatus(o, "RESERVED")
  /\ InsertTickets(o)
  /\ SaveCharge(o)
  /\ inTx' = [inTx EXCEPT ![o] = NoTx]
  /\ UNCHANGED <<sessions, payVars, apiVars, disruptions>>

\* The message is retried; the session stays open at the gateway.
RollBackOrder(o) ==
  /\ inTx[o] # NoTx
  /\ Disrupt
  /\ inTx' = [inTx EXCEPT ![o] = NoTx]
  /\ UNCHANGED <<dbVars, sessions, payVars, apiVars>>

-----------------------------------------------------------------------------
(* Payment events *)

\* The gateway reports the outcome of a session, committed or not: the webhook
\* stores it in payment_event_outbox, once, and the relay publishes it.
GatewayReports(e) ==
  /\ e.ref \in DOMAIN sessions /\ e \notin reported
  /\ OneOutcome => \A f \in reported : f.ref # e.ref
  /\ reported' = reported \cup {e}
  /\ inbox' = inbox \cup {e}
  /\ UNCHANGED <<dbVars, sessions, inTx, dead, work, apiVars, disruptions>>

Redeliver(e) ==
  /\ e \in reported \ inbox
  /\ Disrupt
  /\ inbox' = inbox \cup {e}
  /\ UNCHANGED <<dbVars, sessions, inTx, reported, dead, work, apiVars>>

ChargeOf(e) == {o \in Orders : charge[o].ref = e.ref}

\* Mutant: the check of charge.Status is inverted.
FindChargeInverted(w, e) ==
  /\ work[w] = {} /\ e \in inbox
  /\ inbox' = inbox \ {e}
  /\ \E o \in ChargeOf(e) :
       work' = IF charge[o].status # "PENDING" THEN [work EXCEPT ![w] = {e}] ELSE work
  /\ UNCHANGED <<dbVars, sessions, inTx, reported, dead, apiVars, disruptions>>

\* FindByProviderRef and the check of charge.Status, before the transaction.
FindCharge(w, e) ==
  /\ work[w] = {} /\ e \in inbox
  /\ inbox' = inbox \ {e}
  /\ \E o \in ChargeOf(e) :
       work' = IF charge[o].status = "PENDING" THEN [work EXCEPT ![w] = {e}] ELSE work
  /\ UNCHANGED <<dbVars, sessions, inTx, reported, dead, apiVars, disruptions>>

\* No charge is found, as often as the consumer tries.
DeadLetter(e) ==
  /\ e \in inbox /\ ChargeOf(e) = {}
  /\ inbox' = inbox \ {e}
  /\ dead' = dead \cup {e}
  /\ UNCHANGED <<dbVars, sessions, inTx, reported, work, apiVars, disruptions>>

\* Mutant: the tickets the order asked for, not those it has.
IssueRequested(o) ==
  ticket' = [t \in TicketIds |->
              IF t \in Items[o] /\ ticket[t].status = "RESERVED"
              THEN [ticket[t] EXCEPT !.status = "VALID"] ELSE ticket[t]]

\* confirmAndIssue's loop over FindByOrderID.
IssueReserved(o) ==
  ticket' = [t \in TicketIds |->
              IF ticket[t].order = o /\ ticket[t].status = "RESERVED"
              THEN [ticket[t] EXCEPT !.status = "VALID"] ELSE ticket[t]]

\* Mutant: only the order fails, the tickets stay reserved.
MarkVoidNothing(o) == ticket' = ticket

MarkVoid(o) ==
  ticket' = [t \in TicketIds |->
              IF ticket[t].order = o /\ ticket[t].status = "RESERVED"
              THEN [ticket[t] EXCEPT !.status = "VOID"] ELSE ticket[t]]

\* Charges, likewise.
UpdateChargeStatus(o, status) == charge' = [charge EXCEPT ![o].status = status]

ConfirmAndIssue(w) ==
  /\ \E e \in work[w], o \in Orders :
       /\ e.outcome = "CONFIRMED" /\ o \in ChargeOf(e)
       /\ UpdateChargeStatus(o, "PAID") /\ UpdateOrderStatus(o, "PAID") /\ IssueReserved(o)
  /\ work' = [work EXCEPT ![w] = {}]
  /\ UNCHANGED <<sessions, inTx, inbox, reported, dead, apiVars, disruptions>>

FailAndVoid(w) ==
  /\ \E e \in work[w], o \in Orders :
       /\ e.outcome = "FAILED" /\ o \in ChargeOf(e)
       /\ UpdateChargeStatus(o, "FAILED") /\ UpdateOrderStatus(o, "FAILED") /\ MarkVoid(o)
  /\ work' = [work EXCEPT ![w] = {}]
  /\ UNCHANGED <<sessions, inTx, inbox, reported, dead, apiVars, disruptions>>

\* The transaction is rolled back, or the process dies; the message is retried.
FulfillmentFails(w) ==
  /\ work[w] # {}
  /\ Disrupt
  /\ inbox' = inbox \cup work[w]
  /\ work' = [work EXCEPT ![w] = {}]
  /\ UNCHANGED <<dbVars, sessions, inTx, reported, dead, apiVars>>

-----------------------------------------------------------------------------
(* tickets-api *)

\* CheckIn.Execute reads the ticket.  Only an issued one has a signature to show;
\* one that is CHECKED_IN already is answered without another step.
ReadForCheckIn(c, t) ==
  /\ request[c] = <<>> /\ ticket[t].status = "VALID"
  /\ request' = [request EXCEPT ![c] = <<"checkin", t>>]
  /\ UNCHANGED <<dbVars, sessions, inTx, payVars, admitted, renamed, disruptions>>

\* Mutant: the UPDATE has no condition on the status.
CheckInAnyway(c, t) ==
  /\ request[c] = <<"checkin", t>>
  /\ request' = [request EXCEPT ![c] = <<>>]
  /\ ticket' = [ticket EXCEPT ![t].status = "CHECKED_IN"]
  /\ admitted' = [admitted EXCEPT ![t] = @ + 1]
  /\ UNCHANGED <<order, charge, sessions, inTx, payVars, renamed, disruptions>>

\* The WHERE clause of the repository's UPDATE.
CheckInAffects(t) == ticket[t].status = "VALID"

\* No row affected means that another request was faster.
CheckIn(c, t) ==
  /\ request[c] = <<"checkin", t>>
  /\ request' = [request EXCEPT ![c] = <<>>]
  /\ IF CheckInAffects(t)
     THEN /\ ticket' = [ticket EXCEPT ![t].status = "CHECKED_IN"]
          /\ admitted' = [admitted EXCEPT ![t] = @ + 1]
     ELSE UNCHANGED <<ticket, admitted>>
  /\ UNCHANGED <<order, charge, sessions, inTx, payVars, renamed, disruptions>>

\* Mutant: a reserved ticket can be corrected.
EditableTooWide(t) == ticket[t].status \in {"RESERVED", "VALID", "CHECKED_IN"}

Editable(t) == ticket[t].status \in {"VALID", "CHECKED_IN"}

\* UpdateHolder.Execute reads the ticket.
ReadForRename(c, t) ==
  /\ request[c] = <<>> /\ Editable(t)
  /\ request' = [request EXCEPT ![c] = <<"rename", t>>]
  /\ UNCHANGED <<dbVars, sessions, inTx, payVars, admitted, renamed, disruptions>>

\* An UPDATE by id.
UpdateHolderName(c, t) ==
  /\ request[c] = <<"rename", t>>
  /\ request' = [request EXCEPT ![c] = <<>>]
  /\ renamed' = renamed \cup {t}
  /\ UNCHANGED <<dbVars, sessions, inTx, payVars, admitted, disruptions>>

-----------------------------------------------------------------------------

Fulfill(w) == ConfirmAndIssue(w) \/ FailAndVoid(w)

Next ==
  \/ \E o \in Orders : OpenCheckout(o) \/ CommitOrder(o) \/ RollBackOrder(o)
  \/ \E e \in Events : GatewayReports(e) \/ Redeliver(e) \/ DeadLetter(e)
  \/ \E w \in Workers :
       (\E e \in Events : FindCharge(w, e)) \/ Fulfill(w) \/ FulfillmentFails(w)
  \/ \E c \in Clients, t \in TicketIds :
       ReadForCheckIn(c, t) \/ CheckIn(c, t) \/ ReadForRename(c, t) \/ UpdateHolderName(c, t)

Spec == Init /\ [][Next]_vars

\* The replicas are kept running and the broker redelivers what they fail on; an
\* event for which there is no charge ends up in the DLQ.
Fairness ==
  /\ \A e \in Events : WF_vars(DeadLetter(e))
  /\ \A w \in Workers :
       WF_vars(Fulfill(w)) /\ WF_vars(\E e \in Events : FindCharge(w, e))

FairSpec == Spec /\ Fairness

-----------------------------------------------------------------------------
(* Properties. *)

\* A ticket is issued only if the gateway confirmed the payment of the order that
\* has it, in the session of that order's charge: not on an orphaned session's
\* event, nor because another order asked for the same ticket.
IssuedOnlyIfConfirmed ==
  \A t \in TicketIds :
    ticket[t].status \in {"VALID", "CHECKED_IN"} =>
      [ref |-> charge[ticket[t].order].ref, outcome |-> "CONFIRMED"] \in reported

\* An order's status, its charge's and its tickets' agree, although redelivered
\* events, check-ins and other orders for the same tickets come in between.  It
\* needs OneOutcome (or a single replica): see ChargeFinal.
SettledTogether ==
  \A o \in Orders :
    LET mine == {ticket[t].status : t \in {t \in TicketIds : ticket[t].order = o}}
    IN  CASE charge[o].status = "PAID"    -> order[o] = "PAID" /\ mine \subseteq {"VALID", "CHECKED_IN"}
          [] charge[o].status = "FAILED"  -> order[o] = "FAILED" /\ mine \subseteq {"VOID"}
          [] charge[o].status = "PENDING" -> order[o] = "RESERVED" /\ mine \subseteq {"RESERVED"}
          [] OTHER                        -> order[o] = "none" /\ mine = {}

\* However many requests race, one of them is told CHECKED_IN and lets the guest in.
SingleEntry == \A t \in TicketIds : admitted[t] <= 1

\* The check of UpdateHolder still holds when its UPDATE is done.
RenamedAreIssued ==
  \A t \in renamed : ticket[t].status \in {"VALID", "CHECKED_IN"}

\* Every event of a charge's session that arrives is applied or found to be a
\* duplicate; only an event that was there before the charge may be dead-lettered.
PaymentsDecided ==
  \A o \in Orders, e \in Events :
    (e \in inbox /\ charge[o].ref = e.ref) ~>
      (charge[o].status \in {"PAID", "FAILED"} \/ e \in dead)

\* A charge that was PAID or FAILED keeps its status: "applying PAID/FAILED to an
\* already-terminal charge is a safe no-op at the use-case layer" (the comment of
\* UpdateStatus in internal/domain/charge.go).
ChargeFinal ==
  [][\A o \in Orders : charge[o].status \in {"PAID", "FAILED"} => charge'[o] = charge[o]]_vars

\* Marking a ticket VOID releases the reservation (internal/domain/ticket.go): a
\* checkout opened after that for an order of the same ticket reserves it.
VoidReleases ==
  [][\A o \in Orders, t \in TicketIds :
       /\ inTx[o] = NoTx /\ inTx'[o] # NoTx
       /\ t \in Items[o] /\ ticket[t].status = "VOID"
       => t \in inTx'[o].tickets]_vars

=============================================================================
