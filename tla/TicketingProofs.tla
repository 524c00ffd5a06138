--------------------------- MODULE TicketingProofs ---------------------------
(***************************************************************************)
(* Proofs about the events database, for any number of orders, tickets,    *)
(* replicas and requests and any sets of tickets that orders share.        *)
(***************************************************************************)
EXTENDS Ticketing, TLAPS

(* Types. *)

LEMMA DisruptType ==
  ASSUME TypeOK, Disrupt \/ UNCHANGED disruptions
  PROVE  disruptions' \in 0..MaxDisruptions
BY BoundsAssumption DEF TypeOK, Disrupt

LEMMA TypeInit == Init => TypeOK
BY BoundsAssumption DEF Init, TypeOK

\* A conditional update of the tickets keeps their types.
LEMMA IssueTypes ==
  ASSUME TypeOK, NEW o \in Orders, IssueReserved(o) \/ MarkVoid(o)
  PROVE  ticket' \in [TicketIds -> {NoTicket} \cup [order : Orders, status : TicketStatuses]]
<1>. SUFFICES ASSUME NEW t \in TicketIds
              PROVE  ticket'[t] \in {NoTicket} \cup [order : Orders, status : TicketStatuses]
  BY DEF IssueReserved, MarkVoid
<1>1. ticket[t] \in {NoTicket} \cup [order : Orders, status : TicketStatuses]
  BY DEF TypeOK
<1>2. CASE ticket'[t] = ticket[t]
  BY <1>1, <1>2
<1>3. CASE ticket'[t] # ticket[t]
  <2>1. ticket[t].status = "RESERVED"
    BY <1>3 DEF IssueReserved, MarkVoid
  <2>2. ticket[t] \in [order : Orders, status : TicketStatuses]
    BY <1>1, <2>1 DEF NoTicket
  <2>3. \/ ticket'[t] = [ticket[t] EXCEPT !.status = "VALID"]
        \/ ticket'[t] = [ticket[t] EXCEPT !.status = "VOID"]
    BY <1>3 DEF IssueReserved, MarkVoid
  <2>. QED  BY <2>2, <2>3 DEF TicketStatuses
<1>. QED  BY <1>2, <1>3

\* The settling transactions find a charge that exists.
LEMMA ChargeTypes ==
  ASSUME TypeOK, NEW o \in Orders, charge[o].ref # 0, NEW s \in {"PAID", "FAILED"},
         UpdateChargeStatus(o, s), UpdateOrderStatus(o, s)
  PROVE  /\ charge' \in [Orders -> {NoCharge} \cup [ref : 1..MaxSessions, status : ChargeStatuses]]
         /\ order' \in [Orders -> {"none"} \cup OrderStatuses]
<1>1. charge[o] \in [ref : 1..MaxSessions, status : ChargeStatuses]
  BY DEF TypeOK, NoCharge
<1>2. [charge[o] EXCEPT !.status = s] \in [ref : 1..MaxSessions, status : ChargeStatuses]
  BY <1>1 DEF ChargeStatuses
<1>. QED  BY <1>2 DEF TypeOK, UpdateChargeStatus, UpdateOrderStatus, OrderStatuses

LEMMA TypeStep == TypeOK /\ [Next]_vars => TypeOK'
<1>. SUFFICES ASSUME TypeOK, [Next]_vars PROVE TypeOK'
  OBVIOUS
<1>. USE DEF dbVars, payVars, apiVars
<1>1. ASSUME NEW o \in Orders, OpenCheckout(o)
      PROVE  TypeOK'
  <2>0. sessions \in Seq(Orders) /\ Len(sessions) < MaxSessions /\ MaxSessions \in Nat
    BY <1>1, BoundsAssumption DEF OpenCheckout, TypeOK
  <2>1. ReserveForOrder(o) \subseteq TicketIds /\ Len(sessions) + 1 \in 1..MaxSessions
    BY <2>0, ItemsAssumption DEF ReserveForOrder
  <2>2. /\ sessions' \in Seq(Orders) /\ Len(sessions') <= MaxSessions
        /\ inTx' \in [Orders -> {NoTx} \cup [ref : 1..MaxSessions, tickets : SUBSET TicketIds]]
    BY <1>1, <2>1, BoundsAssumption DEF OpenCheckout, TypeOK
  <2>. QED  BY <1>1, <2>2 DEF OpenCheckout, TypeOK
<1>2. ASSUME NEW o \in Orders, CommitOrder(o)
      PROVE  TypeOK'
  <2>1. inTx[o] \in [ref : 1..MaxSessions, tickets : SUBSET TicketIds]
    BY <1>2 DEF CommitOrder, TypeOK
  <2>2. /\ order' \in [Orders -> {"none"} \cup OrderStatuses]
        /\ inTx' \in [Orders -> {NoTx} \cup [ref : 1..MaxSessions, tickets : SUBSET TicketIds]]
    BY <1>2 DEF CommitOrder, UpdateOrderStatus, OrderStatuses, TypeOK
  <2>3. charge' \in [Orders -> {NoCharge} \cup [ref : 1..MaxSessions, status : ChargeStatuses]]
    BY <1>2, <2>1 DEF CommitOrder, SaveCharge, ChargeStatuses, TypeOK
  <2>4. ticket' \in [TicketIds -> {NoTicket} \cup [order : Orders, status : TicketStatuses]]
    BY <1>2 DEF CommitOrder, InsertTickets, TicketStatuses, TypeOK
  <2>. QED  BY <1>2, <2>2, <2>3, <2>4 DEF CommitOrder, TypeOK
<1>3. ASSUME NEW o \in Orders, RollBackOrder(o)
      PROVE  TypeOK'
  <2>1. disruptions' \in 0..MaxDisruptions
    BY <1>3, DisruptType DEF RollBackOrder
  <2>. QED  BY <1>3, <2>1 DEF RollBackOrder, TypeOK
<1>4. ASSUME NEW e \in Events, GatewayReports(e) \/ DeadLetter(e)
      PROVE  TypeOK'
  BY <1>4 DEF GatewayReports, DeadLetter, TypeOK
<1>5. ASSUME NEW e \in Events, Redeliver(e)
      PROVE  TypeOK'
  <2>1. disruptions' \in 0..MaxDisruptions
    BY <1>5, DisruptType DEF Redeliver
  <2>. QED  BY <1>5, <2>1 DEF Redeliver, TypeOK
<1>6. ASSUME NEW w \in Workers, NEW e \in Events, FindCharge(w, e)
      PROVE  TypeOK'
  BY <1>6 DEF FindCharge, TypeOK
<1>7. ASSUME NEW w \in Workers, Fulfill(w)
      PROVE  TypeOK'
  <2>. PICK e \in work[w], o \in Orders, s \in {"PAID", "FAILED"} :
         /\ o \in ChargeOf(e)
         /\ UpdateChargeStatus(o, s) /\ UpdateOrderStatus(o, s)
         /\ IssueReserved(o) \/ MarkVoid(o)
    BY <1>7 DEF Fulfill, ConfirmAndIssue, FailAndVoid
  <2>1. e \in Events
    BY DEF TypeOK
  <2>2. charge[o].ref # 0
    BY <2>1 DEF ChargeOf, Events
  <2>3. /\ ticket' \in [TicketIds -> {NoTicket} \cup [order : Orders, status : TicketStatuses]]
        /\ charge' \in [Orders -> {NoCharge} \cup [ref : 1..MaxSessions, status : ChargeStatuses]]
        /\ order' \in [Orders -> {"none"} \cup OrderStatuses]
    BY <2>2, IssueTypes, ChargeTypes
  <2>4. work' = [work EXCEPT ![w] = {}]
        /\ UNCHANGED <<sessions, inTx, inbox, reported, dead, apiVars, disruptions>>
    BY <1>7 DEF Fulfill, ConfirmAndIssue, FailAndVoid
  <2>. QED  BY <2>3, <2>4 DEF TypeOK
<1>8. ASSUME NEW w \in Workers, FulfillmentFails(w)
      PROVE  TypeOK'
  <2>1. disruptions' \in 0..MaxDisruptions
    BY <1>8, DisruptType DEF FulfillmentFails
  <2>. QED  BY <1>8, <2>1 DEF FulfillmentFails, TypeOK
<1>9. ASSUME NEW c \in Clients, NEW t \in TicketIds, ReadForCheckIn(c, t) \/ ReadForRename(c, t)
      PROVE  TypeOK'
  <2>1. {<<"checkin", t>>, <<"rename", t>>} \subseteq {"checkin", "rename"} \X TicketIds
    OBVIOUS
  <2>2. \/ request' = [request EXCEPT ![c] = <<"checkin", t>>]
        \/ request' = [request EXCEPT ![c] = <<"rename", t>>]
    BY <1>9 DEF ReadForCheckIn, ReadForRename
  <2>3. request' \in [Clients -> {<<>>} \cup ({"checkin", "rename"} \X TicketIds)]
    BY <2>1, <2>2 DEF TypeOK
  <2>. QED  BY <1>9, <2>3 DEF ReadForCheckIn, ReadForRename, TypeOK
<1>10. ASSUME NEW c \in Clients, NEW t \in TicketIds, CheckIn(c, t)
       PROVE  TypeOK'
  <2>1. /\ ticket' \in [TicketIds -> {NoTicket} \cup [order : Orders, status : TicketStatuses]]
        /\ admitted' \in [TicketIds -> Nat]
    <3>1. CASE CheckInAffects(t)
      <4>1. ticket[t] \in [order : Orders, status : TicketStatuses]
        BY <3>1 DEF CheckInAffects, TypeOK, NoTicket
      <4>2. [ticket[t] EXCEPT !.status = "CHECKED_IN"] \in [order : Orders, status : TicketStatuses]
        BY <4>1 DEF TicketStatuses
      <4>3. /\ ticket' = [ticket EXCEPT ![t] = [ticket[t] EXCEPT !.status = "CHECKED_IN"]]
            /\ admitted' = [admitted EXCEPT ![t] = @ + 1]
        BY <1>10, <3>1 DEF CheckIn
      <4>. QED  BY <4>2, <4>3 DEF TypeOK
    <3>2. CASE ~CheckInAffects(t)
      BY <1>10, <3>2 DEF CheckIn, TypeOK
    <3>. QED  BY <3>1, <3>2
  <2>. QED  BY <1>10, <2>1 DEF CheckIn, TypeOK
<1>11. ASSUME NEW c \in Clients, NEW t \in TicketIds, UpdateHolderName(c, t)
       PROVE  TypeOK'
  BY <1>11 DEF UpdateHolderName, TypeOK
<1>12. CASE UNCHANGED vars
  BY <1>12 DEF vars, TypeOK
<1>. QED  BY <1>1, <1>2, <1>3, <1>4, <1>5, <1>6, <1>7, <1>8, <1>9, <1>10, <1>11, <1>12 DEF Next

\* Type correctness: in particular a charge never gets a status without a session,
\* and a ticket never a status outside the table's.
THEOREM TicketingTypes == Spec => []TypeOK
BY TypeInit, TypeStep, PTL DEF Spec

-----------------------------------------------------------------------------
(* What was read before a transaction still holds in it.                   *)
(*                                                                         *)
(* The tables: an order, its charge and its tickets are stored together,   *)
(* and what a transaction in progress has inserted nobody else has.  The   *)
(* requests: a ticket that was VALID or CHECKED_IN never ceases to be one  *)
(* of the two, so that the check of a request cannot become stale.         *)

ChargedWhenStored == \A o \in Orders : charge[o] = NoCharge <=> order[o] = "none"

OwnerStored ==
  \A t \in TicketIds : ticket[t] # NoTicket => order[ticket[t].order] # "none"

InProgress ==
  /\ \A o \in Orders : inTx[o] # NoTx => order[o] = "none"
  /\ \A o \in Orders : \A t \in inTx[o].tickets : ticket[t] = NoTicket
  /\ \A o, p \in Orders : o # p => inTx[o].tickets \cap inTx[p].tickets = {}

RequestsIssued == \A c \in Clients : request[c] # <<>> => Editable(request[c][2])

AdmittedOnce ==
  \A t \in TicketIds : admitted[t] = IF ticket[t].status = "CHECKED_IN" THEN 1 ELSE 0

\* A charge is settled by the event the gateway sent for its own session.
Verdicts ==
  \A o \in Orders :
    /\ charge[o].status = "PAID"   => [ref |-> charge[o].ref, outcome |-> "CONFIRMED"] \in reported
    /\ charge[o].status = "FAILED" => [ref |-> charge[o].ref, outcome |-> "FAILED"] \in reported

StoredInv == ChargedWhenStored /\ OwnerStored /\ InProgress
ApiInv    == RequestsIssued /\ AdmittedOnce /\ RenamedAreIssued
PaidInv   == Verdicts /\ IssuedOnlyIfConfirmed
TicketInv == TypeOK /\ StoredInv /\ ApiInv /\ PaidInv

LEMMA TicketInvInit == Init => TicketInv
BY TypeInit DEF Init, TicketInv, StoredInv, ApiInv, PaidInv, ChargedWhenStored, OwnerStored,
     InProgress, RequestsIssued, AdmittedOnce, RenamedAreIssued, Verdicts,
     IssuedOnlyIfConfirmed, NoCharge, NoTicket, NoTx

\* The steps between gateway, queue and replicas touch none of it.
LEMMA QueueStep ==
  ASSUME TicketInv, UNCHANGED <<dbVars, inTx, apiVars>>, reported \subseteq reported'
  PROVE  StoredInv' /\ ApiInv' /\ PaidInv'
<1>. USE DEF dbVars, apiVars, TicketInv
<1>1. StoredInv'
  BY DEF StoredInv, ChargedWhenStored, OwnerStored, InProgress
<1>2. ApiInv'
  BY DEF ApiInv, RequestsIssued, AdmittedOnce, RenamedAreIssued, Editable
<1>3. PaidInv'
  BY DEF PaidInv, Verdicts, IssuedOnlyIfConfirmed
<1>. QED  BY <1>1, <1>2, <1>3

LEMMA OpenStep ==
  ASSUME TicketInv, NEW o \in Orders, OpenCheckout(o) \/ RollBackOrder(o)
  PROVE  StoredInv' /\ ApiInv' /\ PaidInv'
<1>. USE DEF dbVars, payVars, apiVars, TicketInv
<1>0. inTx \in [Orders -> {NoTx} \cup [ref : 1..MaxSessions, tickets : SUBSET TicketIds]]
  BY DEF TypeOK
<1>1. InProgress'
  <2>1. CASE OpenCheckout(o)
    <3>1. /\ order' = order /\ ticket' = ticket
          /\ inTx'[o].tickets = ReserveForOrder(o)
          /\ \A p \in Orders : p # o => inTx'[p] = inTx[p]
          /\ order[o] = "none"
          /\ \A p \in Orders : inTx[p].tickets \cap ReserveForOrder(o) = {}
          /\ \A t \in ReserveForOrder(o) : ticket[t] = NoTicket
      BY <1>0, <2>1 DEF OpenCheckout, SaveCreates, ReserveForOrder
    <3>. QED  BY <3>1 DEF StoredInv, InProgress
  <2>2. CASE RollBackOrder(o)
    <3>1. /\ order' = order /\ ticket' = ticket
          /\ inTx'[o] = NoTx
          /\ \A p \in Orders : p # o => inTx'[p] = inTx[p]
      BY <1>0, <2>2 DEF RollBackOrder
    <3>. QED  BY <3>1 DEF StoredInv, InProgress, NoTx
  <2>. QED  BY <2>1, <2>2
<1>2. UNCHANGED <<order, charge, ticket, request, admitted, renamed, reported>>
  BY DEF OpenCheckout, RollBackOrder
<1>3. StoredInv'
  BY <1>1, <1>2 DEF StoredInv, ChargedWhenStored, OwnerStored
<1>4. ApiInv'
  BY <1>2 DEF ApiInv, RequestsIssued, AdmittedOnce, RenamedAreIssued, Editable
<1>5. PaidInv'
  BY <1>2 DEF PaidInv, Verdicts, IssuedOnlyIfConfirmed
<1>. QED  BY <1>3, <1>4, <1>5

\* A commit stores an order nobody had, with tickets nobody had.
Commits(o) ==
  /\ order[o] = "none" /\ charge[o] = NoCharge
  /\ order'[o] = "RESERVED" /\ charge'[o].status = "PENDING" /\ charge'[o] # NoCharge
  /\ \A p \in Orders : p # o => order'[p] = order[p] /\ charge'[p] = charge[p]
  /\ inTx'[o] = NoTx /\ \A p \in Orders : p # o => inTx'[p] = inTx[p]
  /\ \A t \in inTx[o].tickets :
       ticket[t] = NoTicket /\ ticket'[t] = [order |-> o, status |-> "RESERVED"]
  /\ \A t \in TicketIds \ inTx[o].tickets : ticket'[t] = ticket[t]
  /\ UNCHANGED <<request, admitted, renamed, reported>>

LEMMA CommitEffect ==
  ASSUME TicketInv, NEW o \in Orders, CommitOrder(o)
  PROVE  Commits(o)
<1>. USE DEF CommitOrder, TicketInv, payVars, apiVars
<1>1. order[o] = "none" /\ charge[o] = NoCharge
  BY DEF StoredInv, InProgress, ChargedWhenStored
<1>2. /\ order'[o] = "RESERVED"
      /\ \A p \in Orders : p # o => order'[p] = order[p]
  BY DEF UpdateOrderStatus, TypeOK
<1>3. /\ charge'[o] = [ref |-> inTx[o].ref, status |-> "PENDING"]
      /\ \A p \in Orders : p # o => charge'[p] = charge[p]
  BY DEF SaveCharge, TypeOK
<1>4. charge'[o].status = "PENDING" /\ charge'[o] # NoCharge
  BY <1>3 DEF NoCharge
<1>5. inTx'[o] = NoTx /\ \A p \in Orders : p # o => inTx'[p] = inTx[p]
  BY DEF TypeOK
<1>6. inTx[o].tickets \subseteq TicketIds
  BY DEF TypeOK, NoTx
<1>7. /\ \A t \in inTx[o].tickets :
           ticket[t] = NoTicket /\ ticket'[t] = [order |-> o, status |-> "RESERVED"]
      /\ \A t \in TicketIds \ inTx[o].tickets : ticket'[t] = ticket[t]
  BY <1>6 DEF InsertTickets, StoredInv, InProgress
<1>. QED  BY <1>1, <1>2, <1>3, <1>4, <1>5, <1>7 DEF Commits

LEMMA CommitStep ==
  ASSUME TicketInv, NEW o \in Orders, CommitOrder(o)
  PROVE  StoredInv' /\ ApiInv' /\ PaidInv'
<1>0. Commits(o)
  BY CommitEffect
<1>. USE <1>0 DEF TicketInv, Commits
<1>1. ChargedWhenStored'
  BY DEF StoredInv, ChargedWhenStored
<1>2. OwnerStored'
  <2>. SUFFICES ASSUME NEW t \in TicketIds, ticket'[t] # NoTicket
                PROVE  order'[ticket'[t].order] # "none"
    BY DEF OwnerStored
  <2>1. CASE t \in inTx[o].tickets
    BY <2>1
  <2>2. CASE t \notin inTx[o].tickets
    <3>1. ticket'[t] = ticket[t] /\ ticket[t].order \in Orders
      BY <2>2 DEF TypeOK
    <3>. QED  BY <3>1 DEF StoredInv, OwnerStored
  <2>. QED  BY <2>1, <2>2
<1>3. InProgress'
  <2>1. \A p \in Orders : inTx'[p] # NoTx => p # o /\ inTx'[p] = inTx[p]
    OBVIOUS
  <2>2. \A p \in Orders : inTx'[p].tickets \subseteq inTx[p].tickets
    BY DEF NoTx
  <2>3. ASSUME NEW p \in Orders, NEW t \in inTx'[p].tickets
        PROVE  ticket'[t] = NoTicket
    <3>1. p # o /\ t \in inTx[p].tickets
      BY <2>2, <2>3 DEF NoTx
    <3>2. t \notin inTx[o].tickets /\ ticket[t] = NoTicket
      BY <3>1 DEF StoredInv, InProgress
    <3>3. t \in TicketIds
      BY <3>1 DEF TypeOK, NoTx
    <3>. QED  BY <3>2, <3>3
  <2>4. \A p \in Orders : inTx'[p] # NoTx => order'[p] = "none"
    BY <2>1 DEF StoredInv, InProgress
  <2>5. \A p, q \in Orders : p # q => inTx'[p].tickets \cap inTx'[q].tickets = {}
    BY <2>2 DEF StoredInv, InProgress
  <2>. QED  BY <2>3, <2>4, <2>5 DEF InProgress
<1>4. \A t \in TicketIds : Editable(t) => Editable(t)'
  BY DEF Editable, NoTicket
<1>5. ApiInv'
  <2>1. RequestsIssued'
    BY <1>4 DEF ApiInv, RequestsIssued, TypeOK
  <2>2. AdmittedOnce'
    BY DEF ApiInv, AdmittedOnce, NoTicket, TypeOK
  <2>3. RenamedAreIssued'
    BY <1>4 DEF ApiInv, RenamedAreIssued, Editable, TypeOK
  <2>. QED  BY <2>1, <2>2, <2>3 DEF ApiInv
<1>6. PaidInv'
  <2>1. Verdicts'
    BY DEF PaidInv, Verdicts
  <2>2. ASSUME NEW t \in TicketIds, ticket'[t].status \in {"VALID", "CHECKED_IN"}
        PROVE  [ref |-> charge'[ticket'[t].order].ref, outcome |-> "CONFIRMED"] \in reported'
    <3>1. ticket'[t] = ticket[t]
      BY <2>2
    <3>2. ticket[t] # NoTicket /\ ticket[t].order \in Orders
      BY <2>2, <3>1 DEF NoTicket, TypeOK
    <3>3. order[ticket[t].order] # "none"
      BY <3>2 DEF StoredInv, OwnerStored
    <3>4. ticket[t].order # o
      BY <3>3
    <3>. QED  BY <2>2, <3>1, <3>2, <3>4 DEF PaidInv, IssuedOnlyIfConfirmed
  <2>. QED  BY <2>1, <2>2 DEF PaidInv, IssuedOnlyIfConfirmed
<1>. QED  BY <1>1, <1>2, <1>3, <1>5, <1>6 DEF StoredInv

\* What ConfirmAndIssue and FailAndVoid have in common: the charge and the order
\* of an event get its verdict, the order's RESERVED tickets become issued or void.
Settles(o, verdict, issued, outcome) ==
  /\ charge[o] # NoCharge /\ charge'[o] # NoCharge
  /\ [ref |-> charge[o].ref, outcome |-> outcome] \in reported
  /\ charge'[o].ref = charge[o].ref /\ charge'[o].status = verdict /\ order'[o] = verdict
  /\ \A p \in Orders : p # o => order'[p] = order[p] /\ charge'[p] = charge[p]
  /\ \A t \in TicketIds :
       IF ticket[t].order = o /\ ticket[t].status = "RESERVED"
       THEN ticket'[t].order = o /\ ticket'[t].status = issued
       ELSE ticket'[t] = ticket[t]
  /\ UNCHANGED <<inTx, request, admitted, renamed, reported>>

LEMMA FulfillEffect ==
  ASSUME TicketInv, NEW w \in Workers, Fulfill(w)
  PROVE  \E o \in Orders :
           /\ \E e \in work[w] : o \in ChargeOf(e)
           /\ Settles(o, "PAID", "VALID", "CONFIRMED") \/ Settles(o, "FAILED", "VOID", "FAILED")
<1>. USE DEF TicketInv, apiVars
<1>1. ASSUME NEW e \in work[w], NEW o \in ChargeOf(e), NEW v \in {"PAID", "FAILED"},
             UpdateChargeStatus(o, v), UpdateOrderStatus(o, v)
      PROVE  /\ o \in Orders /\ charge[o] # NoCharge /\ charge'[o] # NoCharge
             /\ [ref |-> charge[o].ref, outcome |-> e.outcome] \in reported
             /\ charge'[o].ref = charge[o].ref /\ charge'[o].status = v /\ order'[o] = v
             /\ \A p \in Orders : p # o => order'[p] = order[p] /\ charge'[p] = charge[p]
  <2>1. e \in reported /\ e \in Events
    BY DEF TypeOK
  <2>2. o \in Orders /\ charge[o].ref = e.ref /\ e.ref # 0
    BY <2>1 DEF ChargeOf, Events
  <2>3. e = [ref |-> e.ref, outcome |-> e.outcome]
    BY <2>1 DEF Events
  <2>4. charge[o] \in [ref : 1..MaxSessions, status : ChargeStatuses]
    BY <2>2 DEF TypeOK, NoCharge
  <2>5. charge' = [charge EXCEPT ![o] = [charge[o] EXCEPT !.status = v]]
    BY <1>1 DEF UpdateChargeStatus
  <2>6. charge'[o].ref = charge[o].ref /\ charge'[o].status = v
    BY <2>2, <2>4, <2>5 DEF TypeOK
  <2>7. charge[o] # NoCharge /\ charge'[o] # NoCharge
    BY <2>2, <2>6 DEF NoCharge
  <2>8. \A p \in Orders : p # o => order'[p] = order[p] /\ charge'[p] = charge[p]
    BY <1>1, <2>5 DEF UpdateOrderStatus, TypeOK
  <2>9. order'[o] = v
    BY <1>1, <2>2 DEF UpdateOrderStatus, TypeOK
  <2>. QED  BY <2>1, <2>2, <2>3, <2>6, <2>7, <2>8, <2>9
<1>2. ASSUME NEW t \in TicketIds, ticket[t].status = "RESERVED"
      PROVE  /\ [ticket[t] EXCEPT !.status = "VALID"].order = ticket[t].order
             /\ [ticket[t] EXCEPT !.status = "VALID"].status = "VALID"
             /\ [ticket[t] EXCEPT !.status = "VOID"].order = ticket[t].order
             /\ [ticket[t] EXCEPT !.status = "VOID"].status = "VOID"
  <2>1. ticket[t] \in [order : Orders, status : TicketStatuses]
    BY <1>2 DEF TypeOK, NoTicket
  <2>. QED  BY <2>1
<1>3. CASE ConfirmAndIssue(w)
  <2>1. PICK e \in work[w], o \in Orders :
          /\ e.outcome = "CONFIRMED" /\ o \in ChargeOf(e)
          /\ UpdateChargeStatus(o, "PAID") /\ UpdateOrderStatus(o, "PAID") /\ IssueReserved(o)
    BY <1>3 DEF ConfirmAndIssue
  <2>2. UNCHANGED <<inTx, request, admitted, renamed, reported>>
    BY <1>3 DEF ConfirmAndIssue
  <2>3. \A t \in TicketIds :
          IF ticket[t].order = o /\ ticket[t].status = "RESERVED"
          THEN ticket'[t].order = o /\ ticket'[t].status = "VALID"
          ELSE ticket'[t] = ticket[t]
    BY <1>2, <2>1 DEF IssueReserved
  <2>. QED  BY <1>1, <2>1, <2>2, <2>3 DEF Settles
<1>4. CASE FailAndVoid(w)
  <2>1. PICK e \in work[w], o \in Orders :
          /\ e.outcome = "FAILED" /\ o \in ChargeOf(e)
          /\ UpdateChargeStatus(o, "FAILED") /\ UpdateOrderStatus(o, "FAILED") /\ MarkVoid(o)
    BY <1>4 DEF FailAndVoid
  <2>2. UNCHANGED <<inTx, request, admitted, renamed, reported>>
    BY <1>4 DEF FailAndVoid
  <2>3. \A t \in TicketIds :
          IF ticket[t].order = o /\ ticket[t].status = "RESERVED"
          THEN ticket'[t].order = o /\ ticket'[t].status = "VOID"
          ELSE ticket'[t] = ticket[t]
    BY <1>2, <2>1 DEF MarkVoid
  <2>. QED  BY <1>1, <2>1, <2>2, <2>3 DEF Settles
<1>. QED  BY <1>3, <1>4 DEF Fulfill

LEMMA FulfillStep ==
  ASSUME TicketInv, TypeOK', NEW w \in Workers, Fulfill(w)
  PROVE  StoredInv' /\ ApiInv' /\ PaidInv'
<1>. PICK o \in Orders, v \in {"PAID", "FAILED"}, i \in {"VALID", "VOID"},
          x \in {"CONFIRMED", "FAILED"} :
       /\ Settles(o, v, i, x)
       /\ \/ v = "PAID" /\ i = "VALID" /\ x = "CONFIRMED"
          \/ v = "FAILED" /\ i = "VOID" /\ x = "FAILED"
  BY FulfillEffect
<1>. USE DEF TicketInv, Settles
<1>1. \A t \in TicketIds : ticket[t] = NoTicket <=> ticket'[t] = NoTicket
  BY DEF NoTicket
<1>2. \A t \in TicketIds : ticket'[t].order = ticket[t].order
  OBVIOUS
<1>3. order[o] # "none"
  BY DEF StoredInv, ChargedWhenStored
<1>4. ChargedWhenStored'
  BY <1>3 DEF StoredInv, ChargedWhenStored
<1>5. OwnerStored'
  <2>. SUFFICES ASSUME NEW t \in TicketIds, ticket'[t] # NoTicket
                PROVE  order'[ticket'[t].order] # "none"
    BY DEF OwnerStored
  <2>1. order[ticket[t].order] # "none" /\ ticket'[t].order = ticket[t].order
    BY <1>1, <1>2 DEF StoredInv, OwnerStored
  <2>2. ticket[t].order \in Orders
    BY <1>1 DEF TypeOK
  <2>. QED  BY <2>1, <2>2
<1>6. InProgress'
  <2>1. \A p \in Orders : \A t \in inTx[p].tickets : t \in TicketIds
    BY DEF TypeOK, NoTx
  <2>. QED  BY <1>1, <1>3, <2>1 DEF StoredInv, InProgress
<1>7. \A t \in TicketIds : Editable(t) => ticket'[t] = ticket[t]
  BY DEF Editable
<1>8. ApiInv'
  <2>1. RequestsIssued'
    BY <1>7 DEF ApiInv, RequestsIssued, Editable, TypeOK
  <2>2. AdmittedOnce'
    BY DEF ApiInv, AdmittedOnce
  <2>3. RenamedAreIssued'
    BY <1>7 DEF ApiInv, RenamedAreIssued, Editable, TypeOK
  <2>. QED  BY <2>1, <2>2, <2>3 DEF ApiInv
<1>9. Verdicts'
  BY DEF PaidInv, Verdicts
<1>10. IssuedOnlyIfConfirmed'
  <2>. SUFFICES ASSUME NEW t \in TicketIds, ticket'[t].status \in {"VALID", "CHECKED_IN"}
                PROVE  [ref |-> charge'[ticket'[t].order].ref, outcome |-> "CONFIRMED"] \in reported
    BY DEF IssuedOnlyIfConfirmed
  <2>1. CASE ticket[t].order = o /\ ticket[t].status = "RESERVED"
    BY <2>1
  <2>2. CASE ~(ticket[t].order = o /\ ticket[t].status = "RESERVED")
    <3>1. ticket'[t] = ticket[t]
      BY <2>2
    <3>2. ticket[t].order \in Orders
      BY <3>1 DEF TypeOK, NoTicket
    <3>3. charge'[ticket[t].order].ref = charge[ticket[t].order].ref
      BY <3>2
    <3>. QED  BY <3>1, <3>3 DEF PaidInv, IssuedOnlyIfConfirmed
  <2>. QED  BY <2>1, <2>2
<1>. QED  BY <1>4, <1>5, <1>6, <1>8, <1>9, <1>10 DEF StoredInv, PaidInv

\* The condition of the UPDATE is what makes a check-in the first one.
LEMMA CheckInStep ==
  ASSUME TicketInv, NEW c \in Clients, NEW t \in TicketIds, CheckIn(c, t)
  PROVE  StoredInv' /\ ApiInv' /\ PaidInv'
<1>. USE DEF TicketInv, payVars
<1>1. /\ UNCHANGED <<order, charge, inTx, renamed, reported>>
      /\ request' = [request EXCEPT ![c] = <<>>]
  BY DEF CheckIn
<1>2. \A u \in TicketIds :
        /\ ticket'[u].order = ticket[u].order
        /\ \/ ticket'[u] = ticket[u] /\ admitted'[u] = admitted[u]
           \/ /\ ticket[u].status = "VALID" /\ ticket'[u].status = "CHECKED_IN"
              /\ admitted'[u] = admitted[u] + 1
  <2>1. CASE CheckInAffects(t)
    <3>1. ticket[t] \in [order : Orders, status : TicketStatuses]
      BY <2>1 DEF CheckInAffects, TypeOK, NoTicket
    <3>2. /\ ticket' = [ticket EXCEPT ![t] = [ticket[t] EXCEPT !.status = "CHECKED_IN"]]
          /\ admitted' = [admitted EXCEPT ![t] = @ + 1]
      BY <2>1 DEF CheckIn
    <3>3. /\ ticket'[t].order = ticket[t].order /\ ticket'[t].status = "CHECKED_IN"
          /\ admitted'[t] = admitted[t] + 1
      BY <3>1, <3>2 DEF TypeOK
    <3>4. \A u \in TicketIds \ {t} : ticket'[u] = ticket[u] /\ admitted'[u] = admitted[u]
      BY <3>2 DEF TypeOK
    <3>. QED  BY <2>1, <3>3, <3>4 DEF CheckInAffects
  <2>2. CASE ~CheckInAffects(t)
    BY <2>2 DEF CheckIn
  <2>. QED  BY <2>1, <2>2
<1>3. \A u \in TicketIds : ticket[u] = NoTicket <=> ticket'[u] = NoTicket
  BY <1>2 DEF NoTicket
<1>4. StoredInv'
  <2>1. \A p \in Orders : \A u \in inTx[p].tickets : u \in TicketIds
    BY DEF TypeOK, NoTx
  <2>2. InProgress'
    BY <1>1, <1>3, <2>1 DEF StoredInv, InProgress
  <2>3. ChargedWhenStored' /\ OwnerStored'
    BY <1>1, <1>2, <1>3 DEF StoredInv, ChargedWhenStored, OwnerStored
  <2>. QED  BY <2>2, <2>3 DEF StoredInv
<1>5. ApiInv'
  <2>1. \A u \in TicketIds : Editable(u) => Editable(u)'
    BY <1>2 DEF Editable
  <2>2. RequestsIssued'
    BY <1>1, <2>1 DEF ApiInv, RequestsIssued, TypeOK
  <2>3. AdmittedOnce'
    BY <1>2 DEF ApiInv, AdmittedOnce
  <2>4. RenamedAreIssued'
    BY <1>1, <2>1 DEF ApiInv, RenamedAreIssued, Editable, TypeOK
  <2>. QED  BY <2>2, <2>3, <2>4 DEF ApiInv
<1>6. PaidInv'
  BY <1>1, <1>2 DEF PaidInv, Verdicts, IssuedOnlyIfConfirmed
<1>. QED  BY <1>4, <1>5, <1>6

\* A request keeps the ticket that it found issued.
LEMMA RequestStep ==
  ASSUME TicketInv, NEW c \in Clients, NEW t \in TicketIds,
         ReadForCheckIn(c, t) \/ ReadForRename(c, t) \/ UpdateHolderName(c, t)
  PROVE  StoredInv' /\ ApiInv' /\ PaidInv'
<1>. USE DEF TicketInv, dbVars, payVars
<1>1. UNCHANGED <<order, charge, ticket, inTx, reported, admitted>>
  BY DEF ReadForCheckIn, ReadForRename, UpdateHolderName
<1>2. Editable(t)
  <2>1. CASE UpdateHolderName(c, t)
    <3>1. request[c] = <<"rename", t>>
      BY <2>1 DEF UpdateHolderName
    <3>. QED  BY <3>1 DEF ApiInv, RequestsIssued
  <2>. QED  BY <2>1 DEF ReadForCheckIn, ReadForRename, Editable
<1>3. /\ \A d \in Clients : request'[d] # <<>> =>
           request'[d] = request[d] \/ request'[d][2] = t
      /\ renamed' \subseteq renamed \cup {t}
  BY DEF ReadForCheckIn, ReadForRename, UpdateHolderName, TypeOK
<1>4. ApiInv'
  BY <1>1, <1>2, <1>3 DEF ApiInv, RequestsIssued, AdmittedOnce, RenamedAreIssued, Editable
<1>5. StoredInv' /\ PaidInv'
  BY <1>1 DEF StoredInv, ChargedWhenStored, OwnerStored, InProgress,
              PaidInv, Verdicts, IssuedOnlyIfConfirmed
<1>. QED  BY <1>4, <1>5

LEMMA TicketStep == TicketInv /\ [Next]_vars => TicketInv'
<1>. SUFFICES ASSUME TicketInv, [Next]_vars PROVE TicketInv'
  OBVIOUS
<1>. SUFFICES StoredInv' /\ ApiInv' /\ PaidInv'
  BY TypeStep DEF TicketInv
<1>0. TypeOK'
  BY TypeStep DEF TicketInv
<1>1. ASSUME NEW o \in Orders, OpenCheckout(o) \/ CommitOrder(o) \/ RollBackOrder(o)
      PROVE  StoredInv' /\ ApiInv' /\ PaidInv'
  BY <1>1, OpenStep, CommitStep
<1>2. ASSUME NEW e \in Events, GatewayReports(e) \/ Redeliver(e) \/ DeadLetter(e)
      PROVE  StoredInv' /\ ApiInv' /\ PaidInv'
  BY <1>2, QueueStep DEF GatewayReports, Redeliver, DeadLetter
<1>3. ASSUME NEW w \in Workers, NEW e \in Events, FindCharge(w, e)
      PROVE  StoredInv' /\ ApiInv' /\ PaidInv'
  BY <1>3, QueueStep DEF FindCharge
<1>4. ASSUME NEW w \in Workers, FulfillmentFails(w)
      PROVE  StoredInv' /\ ApiInv' /\ PaidInv'
  BY <1>4, QueueStep DEF FulfillmentFails
<1>5. ASSUME NEW c \in Clients, NEW t \in TicketIds,
             \/ ReadForCheckIn(c, t) \/ CheckIn(c, t)
             \/ ReadForRename(c, t) \/ UpdateHolderName(c, t)
      PROVE  StoredInv' /\ ApiInv' /\ PaidInv'
  BY <1>5, CheckInStep, RequestStep
<1>6. CASE UNCHANGED vars
  BY <1>6, QueueStep DEF vars, dbVars, apiVars
<1>. QED  BY <1>0, <1>1, <1>2, <1>3, <1>4, <1>5, <1>6, FulfillStep DEF Next

LEMMA TicketInvariant == Spec => []TicketInv
BY TicketInvInit, TicketStep, PTL DEF Spec

\* A ticket is issued only for a payment the gateway confirmed, in the session of
\* the charge of the very order that has the ticket.
THEOREM IssuedWhenConfirmed == Spec => []IssuedOnlyIfConfirmed
<1>1. TicketInv => IssuedOnlyIfConfirmed
  BY DEF TicketInv, PaidInv
<1>. QED  BY <1>1, TicketInvariant, PTL

\* However many requests race for a ticket, one of them lets a guest in.
THEOREM OneEntry == Spec => []SingleEntry
<1>1. TicketInv => SingleEntry
  BY DEF TicketInv, ApiInv, AdmittedOnce, SingleEntry
<1>. QED  BY <1>1, TicketInvariant, PTL

\* The status that UpdateHolder checked before its UPDATE still holds in it.
THEOREM RenamedIssued == Spec => []RenamedAreIssued
<1>1. TicketInv => RenamedAreIssued
  BY DEF TicketInv, ApiInv
<1>. QED  BY <1>1, TicketInvariant, PTL

-----------------------------------------------------------------------------
(* The tables agree.                                                       *)
(*                                                                         *)
(* Two replicas may both find the charge PENDING and both write.  There    *)
(* are two ways out.  If the gateway reports one outcome per session, the  *)
(* second write repeats the first: all the events of a session are the     *)
(* same event, and a charge has the verdict of an event of its session     *)
(* (Verdicts).  With a single replica, the charge it found PENDING still   *)
(* is when it writes, whatever outcomes the gateway reports.               *)

OneVerdict == \A e, f \in reported : e.ref = f.ref => e = f

\* One replica, that is.
Alone == \A v, w \in Workers : v = w

\* What a replica found PENDING has stayed so.
WorkPending ==
  \A w \in Workers : \A e \in work[w] : \A o \in ChargeOf(e) : charge[o].status = "PENDING"

\* The session of a charge, or of a transaction, was opened for its order.
RefsOwn ==
  \A o \in Orders :
    /\ charge[o] # NoCharge =>
         charge[o].ref \in 1..Len(sessions) /\ sessions[charge[o].ref] = o
    /\ inTx[o] # NoTx =>
         inTx[o].ref \in 1..Len(sessions) /\ sessions[inTx[o].ref] = o

Has(o, t) == ticket[t].order = o

\* SettledTogether, as an implication per status of the charge.
Agrees(o) ==
  /\ charge[o].status = "PAID" =>
       order[o] = "PAID" /\ \A t \in TicketIds : Has(o, t) => ticket[t].status \in {"VALID", "CHECKED_IN"}
  /\ charge[o].status = "FAILED" =>
       order[o] = "FAILED" /\ \A t \in TicketIds : Has(o, t) => ticket[t].status = "VOID"
  /\ charge[o].status = "PENDING" =>
       order[o] = "RESERVED" /\ \A t \in TicketIds : Has(o, t) => ticket[t].status = "RESERVED"
  /\ charge[o].status = "none" =>
       order[o] = "none" /\ \A t \in TicketIds : ~Has(o, t)

AgreeInv  == \A o \in Orders : Agrees(o)
SettleInv == TicketInv /\ AgreeInv

LEMMA StatusKnown ==
  ASSUME TypeOK, NEW o \in Orders
  PROVE  charge[o].status \in {"none", "PAID", "FAILED", "PENDING"}
BY DEF TypeOK, NoCharge, ChargeStatuses

LEMMA OwnedTicket ==
  ASSUME TypeOK, NEW o \in Orders, NEW t \in TicketIds, Has(o, t)
  PROVE  ticket[t] \in [order : Orders, status : TicketStatuses] /\ ticket[t] # NoTicket
BY NoOrderAssumption DEF Has, TypeOK, NoTicket

LEMMA AgreementSettles == TypeOK /\ AgreeInv => SettledTogether
<1>. SUFFICES ASSUME TypeOK, AgreeInv, NEW o \in Orders
              PROVE  LET mine == {ticket[t].status : t \in {t \in TicketIds : ticket[t].order = o}}
                     IN  CASE charge[o].status = "PAID"    -> order[o] = "PAID" /\ mine \subseteq {"VALID", "CHECKED_IN"}
                           [] charge[o].status = "FAILED"  -> order[o] = "FAILED" /\ mine \subseteq {"VOID"}
                           [] charge[o].status = "PENDING" -> order[o] = "RESERVED" /\ mine \subseteq {"RESERVED"}
                           [] OTHER                        -> order[o] = "none" /\ mine = {}
  BY DEF SettledTogether
<1>. QED  BY StatusKnown DEF AgreeInv, Agrees, Has

LEMMA AgreeInit == Init => AgreeInv /\ OneVerdict /\ WorkPending /\ RefsOwn
BY NoOrderAssumption
   DEF Init, AgreeInv, Agrees, Has, OneVerdict, WorkPending, RefsOwn, NoCharge, NoTicket

LEMMA OneVerdictStep ==
  ASSUME OneOutcome, OneVerdict, [Next]_vars
  PROVE  OneVerdict'
<1>1. CASE reported' = reported
  BY <1>1 DEF OneVerdict
<1>2. CASE reported' # reported
  <2>1. PICK e \in Events : GatewayReports(e)
    BY <1>2 DEF Next, vars, OpenCheckout, CommitOrder, RollBackOrder, Redeliver, DeadLetter,
         FindCharge, Fulfill, ConfirmAndIssue, FailAndVoid, FulfillmentFails, ReadForCheckIn,
         CheckIn, ReadForRename, UpdateHolderName, payVars
  <2>2. reported' = reported \cup {e} /\ \A f \in reported : f.ref # e.ref
    BY <2>1 DEF GatewayReports
  <2>. QED  BY <2>2 DEF OneVerdict
<1>. QED  BY <1>1, <1>2

\* Which sessions are whose never changes, and every charge has its own.
LEMMA RefsStep ==
  ASSUME TicketInv, RefsOwn, [Next]_vars
  PROVE  RefsOwn'
<1>. USE DEF TicketInv
<1>1. CASE UNCHANGED <<charge, inTx, sessions>>
  BY <1>1 DEF RefsOwn
<1>2. ASSUME NEW o \in Orders, OpenCheckout(o) PROVE RefsOwn'
  <2>1. /\ sessions \in Seq(Orders) /\ sessions' = Append(sessions, o) /\ charge' = charge
        /\ inTx'[o].ref = Len(sessions) + 1
        /\ \A p \in Orders : p # o => inTx'[p] = inTx[p]
    BY <1>2 DEF OpenCheckout, dbVars, TypeOK
  <2>2. /\ Len(sessions') = Len(sessions) + 1 /\ sessions'[Len(sessions) + 1] = o
        /\ \A n \in 1..Len(sessions) : n \in 1..Len(sessions') /\ sessions'[n] = sessions[n]
        /\ Len(sessions) + 1 \in 1..Len(sessions')
    BY <2>1
  <2>. HIDE DEF TicketInv
  <2>. QED  BY <2>1, <2>2 DEF RefsOwn
<1>3. ASSUME NEW o \in Orders, CommitOrder(o) PROVE RefsOwn'
  <2>1. sessions' = sessions /\ inTx[o] # NoTx /\ charge'[o].ref = inTx[o].ref
    BY <1>3 DEF CommitOrder, SaveCharge, TypeOK
  <2>2. Commits(o)
    BY <1>3, CommitEffect
  <2>. QED  BY <2>1, <2>2 DEF RefsOwn, Commits
<1>4. ASSUME NEW o \in Orders, RollBackOrder(o) PROVE RefsOwn'
  <2>1. /\ UNCHANGED <<sessions, charge>> /\ inTx'[o] = NoTx
        /\ \A p \in Orders : p # o => inTx'[p] = inTx[p]
    BY <1>4 DEF RollBackOrder, dbVars, TypeOK
  <2>. QED  BY <2>1 DEF RefsOwn
<1>5. ASSUME NEW w \in Workers, Fulfill(w) PROVE RefsOwn'
  <2>1. sessions' = sessions
    BY <1>5 DEF Fulfill, ConfirmAndIssue, FailAndVoid
  <2>2. PICK o \in Orders :
          Settles(o, "PAID", "VALID", "CONFIRMED") \/ Settles(o, "FAILED", "VOID", "FAILED")
    BY <1>5, FulfillEffect
  <2>. QED  BY <2>1, <2>2 DEF RefsOwn, Settles
<1>. QED  BY <1>1, <1>2, <1>3, <1>4, <1>5
          DEF Next, vars, dbVars, apiVars, payVars, GatewayReports, Redeliver, DeadLetter,
              FindCharge, FulfillmentFails, ReadForCheckIn, CheckIn, ReadForRename,
              UpdateHolderName

\* One replica finishes what it has found before it looks for anything else.
LEMMA PendingStep ==
  ASSUME Alone, TicketInv, RefsOwn, WorkPending, [Next]_vars
  PROVE  WorkPending'
<1>. USE DEF TicketInv
<1>1. ASSUME charge' = charge, \A w \in Workers : work'[w] \subseteq work[w]
      PROVE  WorkPending'
  BY <1>1 DEF WorkPending, ChargeOf
<1>2. ASSUME NEW o \in Orders, CommitOrder(o) PROVE WorkPending'
  <2>1. Commits(o) /\ work' = work
    BY <1>2, CommitEffect DEF CommitOrder, payVars
  <2>. QED  BY <2>1 DEF WorkPending, ChargeOf, Commits
<1>3. ASSUME NEW w \in Workers, NEW e \in Events, FindCharge(w, e) PROVE WorkPending'
  <2>1. PICK o \in ChargeOf(e) :
          work' = IF charge[o].status = "PENDING" THEN [work EXCEPT ![w] = {e}] ELSE work
    BY <1>3 DEF FindCharge
  <2>2. charge' = charge
    BY <1>3 DEF FindCharge, dbVars
  <2>3. ASSUME NEW p \in ChargeOf(e) PROVE p = o
    <3>1. e.ref # 0 /\ charge[p].ref = e.ref /\ charge[o].ref = e.ref /\ p \in Orders /\ o \in Orders
      BY DEF ChargeOf, Events
    <3>. QED  BY <3>1 DEF RefsOwn, NoCharge
  <2>4. CASE charge[o].status = "PENDING"
    <3>1. \A v \in Workers : work'[v] = IF v = w THEN {e} ELSE work[v]
      BY <2>1, <2>4 DEF TypeOK
    <3>. QED  BY <2>2, <2>3, <2>4, <3>1 DEF WorkPending, ChargeOf
  <2>5. CASE charge[o].status # "PENDING"
    BY <1>1, <2>1, <2>2, <2>5
  <2>. QED  BY <2>4, <2>5
<1>4. ASSUME NEW w \in Workers, Fulfill(w) PROVE WorkPending'
  <2>1. work' = [work EXCEPT ![w] = {}]
    BY <1>4 DEF Fulfill, ConfirmAndIssue, FailAndVoid
  <2>. QED  BY <2>1 DEF WorkPending, Alone, TypeOK
<1>5. ASSUME NEW w \in Workers, FulfillmentFails(w) PROVE WorkPending'
  BY <1>1, <1>5 DEF FulfillmentFails, dbVars, TypeOK
<1>. QED  BY <1>1, <1>2, <1>3, <1>4, <1>5
          DEF Next, vars, dbVars, apiVars, payVars, OpenCheckout, RollBackOrder, GatewayReports,
              Redeliver, DeadLetter, ReadForCheckIn, CheckIn, ReadForRename, UpdateHolderName

LEMMA CommitAgrees ==
  ASSUME SettleInv, NEW o \in Orders, CommitOrder(o)
  PROVE  AgreeInv'
<1>. USE DEF SettleInv
<1>0. Commits(o) /\ TypeOK /\ inTx[o].tickets \subseteq TicketIds
  <2>1. TypeOK
    BY DEF TicketInv
  <2>2. inTx[o].tickets \subseteq TicketIds
    BY <2>1 DEF TypeOK, NoTx
  <2>. QED  BY <2>1, <2>2, CommitEffect
<1>. SUFFICES ASSUME NEW p \in Orders PROVE Agrees(p)'
  BY DEF AgreeInv
<1>1. CASE p = o
  <2>1. charge[o].status = "none"
    BY <1>0 DEF Commits, NoCharge
  <2>2. \A t \in TicketIds : Has(o, t)' => t \in inTx[o].tickets
    BY <1>0, <2>1 DEF AgreeInv, Agrees, Has, Commits
  <2>. QED  BY <1>0, <1>1, <2>2 DEF Agrees, Commits
<1>2. CASE p # o
  <2>1. \A t \in TicketIds : Has(p, t)' => Has(p, t) /\ ticket'[t] = ticket[t]
    BY <1>0, <1>2 DEF Has, Commits
  <2>. QED  BY <1>0, <1>2, <2>1 DEF AgreeInv, Agrees, Commits
<1>. QED  BY <1>1, <1>2

LEMMA FulfillAgrees ==
  ASSUME SettleInv, OneVerdict \/ WorkPending, NEW w \in Workers, Fulfill(w)
  PROVE  AgreeInv'
<1>. PICK o \in Orders, v \in {"PAID", "FAILED"}, i \in {"VALID", "VOID"},
          x \in {"CONFIRMED", "FAILED"} :
       /\ \E e \in work[w] : o \in ChargeOf(e)
       /\ Settles(o, v, i, x)
       /\ \/ v = "PAID" /\ i = "VALID" /\ x = "CONFIRMED"
          \/ v = "FAILED" /\ i = "VOID" /\ x = "FAILED"
  BY FulfillEffect DEF SettleInv
<1>0. TypeOK /\ TypeOK' /\ AgreeInv
  <2>1. TypeOK
    BY DEF SettleInv, TicketInv
  <2>2. Next
    BY DEF Next
  <2>. QED  BY <2>1, <2>2, TypeStep DEF SettleInv
\* The charge is PENDING, or has this very verdict already.
<1>1. charge[o].status \in {"PENDING", v}
  <2>. SUFFICES ASSUME OneVerdict PROVE charge[o].status \in {"PENDING", v}
    BY DEF WorkPending
  <2>1. charge[o].status # "none"
    BY <1>0 DEF Settles, TypeOK, ChargeStatuses
  <2>2. CASE charge[o].status = "PAID"
    <3>1. [ref |-> charge[o].ref, outcome |-> "CONFIRMED"] \in reported
      BY <2>2 DEF SettleInv, TicketInv, PaidInv, Verdicts
    <3>2. [ref |-> charge[o].ref, outcome |-> x] = [ref |-> charge[o].ref, outcome |-> "CONFIRMED"]
      BY <3>1 DEF Settles, OneVerdict
    <3>. QED  BY <2>2, <3>2
  <2>3. CASE charge[o].status = "FAILED"
    <3>1. [ref |-> charge[o].ref, outcome |-> "FAILED"] \in reported
      BY <2>3 DEF SettleInv, TicketInv, PaidInv, Verdicts
    <3>2. [ref |-> charge[o].ref, outcome |-> x] = [ref |-> charge[o].ref, outcome |-> "FAILED"]
      BY <3>1 DEF Settles, OneVerdict
    <3>. QED  BY <2>3, <3>2
  <2>. QED  BY <1>0, <2>1, <2>2, <2>3, StatusKnown
<1>2. ASSUME NEW p \in Orders PROVE Agrees(p)'
  <2>1. CASE p = o
    <3>1. \A t \in TicketIds : Has(o, t)' => Has(o, t)
      BY DEF Has, Settles
    <3>2. \A t \in TicketIds : Has(o, t) /\ ticket[t].status = "RESERVED" => ticket'[t].status = i
      BY DEF Has, Settles
    <3>3. \A t \in TicketIds : Has(o, t) /\ ticket[t].status # "RESERVED" => ticket'[t] = ticket[t]
      BY DEF Has, Settles
    <3>4. Agrees(o) /\ charge'[o].status = v /\ order'[o] = v
      BY <1>0 DEF AgreeInv, Settles
    <3>. QED  BY <1>1, <2>1, <3>1, <3>2, <3>3, <3>4 DEF Agrees
  <2>2. CASE p # o
    <3>1. \A t \in TicketIds : Has(p, t)' => Has(p, t) /\ ticket'[t] = ticket[t]
      BY <2>2 DEF Has, Settles
    <3>2. Agrees(p) /\ charge'[p] = charge[p] /\ order'[p] = order[p]
      BY <1>0, <2>2 DEF AgreeInv, Settles
    <3>. QED  BY <3>1, <3>2 DEF Agrees
  <2>. QED  BY <2>1, <2>2
<1>. QED  BY <1>2 DEF AgreeInv

\* A ticket is let in only if it is VALID, and then its order is PAID.
LEMMA CheckInAgrees ==
  ASSUME SettleInv, NEW c \in Clients, NEW t \in TicketIds, CheckIn(c, t)
  PROVE  AgreeInv'
<1>. USE DEF SettleInv, TicketInv
<1>1. order' = order /\ charge' = charge
  BY DEF CheckIn
<1>2. CASE CheckInAffects(t)
  <2>1. ticket[t] \in [order : Orders, status : TicketStatuses] /\ ticket[t].status = "VALID"
    BY <1>2 DEF CheckInAffects, TypeOK, NoTicket
  <2>2. ticket' = [ticket EXCEPT ![t] = [ticket[t] EXCEPT !.status = "CHECKED_IN"]]
    BY <1>2 DEF CheckIn
  <2>3. ticket'[t].order = ticket[t].order /\ ticket'[t].status = "CHECKED_IN"
    BY <2>1, <2>2 DEF TypeOK
  <2>4. \A u \in TicketIds \ {t} : ticket'[u] = ticket[u]
    BY <2>2 DEF TypeOK
  <2>5. ASSUME NEW o \in Orders PROVE Agrees(o)'
    <3>1. Has(o, t) => charge[o].status = "PAID"
      BY <2>1, StatusKnown DEF AgreeInv, Agrees
    <3>. QED  BY <1>1, <2>3, <2>4, <3>1 DEF AgreeInv, Agrees, Has
  <2>. QED  BY <2>5 DEF AgreeInv
<1>3. CASE ~CheckInAffects(t)
  BY <1>1, <1>3 DEF CheckIn, AgreeInv, Agrees, Has
<1>. QED  BY <1>2, <1>3

LEMMA SettleStep ==
  ASSUME SettleInv, OneVerdict \/ WorkPending, [Next]_vars
  PROVE  SettleInv'
<1>. SUFFICES AgreeInv'
  BY TicketStep DEF SettleInv
<1>1. ASSUME UNCHANGED dbVars PROVE AgreeInv'
  BY <1>1 DEF dbVars, SettleInv, AgreeInv, Agrees, Has
<1>2. ASSUME NEW o \in Orders, OpenCheckout(o) \/ CommitOrder(o) \/ RollBackOrder(o)
      PROVE  AgreeInv'
  BY <1>1, <1>2, CommitAgrees DEF OpenCheckout, RollBackOrder
<1>3. ASSUME NEW e \in Events, GatewayReports(e) \/ Redeliver(e) \/ DeadLetter(e)
      PROVE  AgreeInv'
  BY <1>1, <1>3 DEF GatewayReports, Redeliver, DeadLetter
<1>4. ASSUME NEW w \in Workers,
             (\E e \in Events : FindCharge(w, e)) \/ Fulfill(w) \/ FulfillmentFails(w)
      PROVE  AgreeInv'
  BY <1>1, <1>4, FulfillAgrees DEF FindCharge, FulfillmentFails
<1>5. ASSUME NEW c \in Clients, NEW t \in TicketIds,
             \/ ReadForCheckIn(c, t) \/ CheckIn(c, t)
             \/ ReadForRename(c, t) \/ UpdateHolderName(c, t)
      PROVE  AgreeInv'
  BY <1>1, <1>5, CheckInAgrees DEF ReadForCheckIn, ReadForRename, UpdateHolderName
<1>6. CASE UNCHANGED vars
  BY <1>1, <1>6 DEF vars, dbVars
<1>. QED  BY <1>2, <1>3, <1>4, <1>5, <1>6 DEF Next

\* What one replica relies on, and its tables.
AloneInv == SettleInv /\ RefsOwn /\ WorkPending

LEMMA AloneInvariant ==
  ASSUME Alone
  PROVE  Spec => []AloneInv
<1>1. Init => AloneInv
  BY TicketInvInit, AgreeInit DEF AloneInv, SettleInv
<1>2. AloneInv /\ [Next]_vars => AloneInv'
  BY SettleStep, RefsStep, PendingStep DEF AloneInv, SettleInv
<1>. QED  BY <1>1, <1>2, PTL DEF Spec

\* If the gateway reports one outcome per session, or there is one replica, then
\* order, charge and tickets agree in every state, whatever redeliveries, rollbacks
\* and check-ins do.
THEOREM TablesAgree ==
  ASSUME OneOutcome \/ Alone
  PROVE  Spec => []SettledTogether
<1>1. SettleInv => SettledTogether
  BY AgreementSettles DEF SettleInv, TicketInv
<1>2. CASE OneOutcome
  <2>1. Init => SettleInv /\ OneVerdict
    BY TicketInvInit, AgreeInit DEF SettleInv
  <2>2. SettleInv /\ OneVerdict /\ [Next]_vars => (SettleInv /\ OneVerdict)'
    BY <1>2, SettleStep, OneVerdictStep
  <2>. QED  BY <1>1, <2>1, <2>2, PTL DEF Spec
<1>3. CASE Alone
  <2>1. AloneInv => SettledTogether
    BY <1>1 DEF AloneInv
  <2>2. Spec => []AloneInv
    BY <1>3, AloneInvariant
  <2>. QED  BY <2>1, <2>2, PTL
<1>. QED  BY <1>2, <1>3

\* With one replica a charge that is PAID or FAILED keeps its status, also when the
\* gateway reports both outcomes for its session: nothing in UpdateStatus looks at
\* the status it overwrites, and it is a second replica that makes it matter.
THEOREM ChargeFinalAlone ==
  ASSUME Alone
  PROVE  Spec => ChargeFinal
<1>1. AloneInv /\ [Next]_vars =>
        [\A o \in Orders : charge[o].status \in {"PAID", "FAILED"} => charge'[o] = charge[o]]_vars
  <2>. SUFFICES ASSUME AloneInv, Next, NEW o \in Orders, charge[o].status \in {"PAID", "FAILED"}
                PROVE  charge'[o] = charge[o]
    OBVIOUS
  <2>1. CASE charge' = charge
    BY <2>1
  <2>2. ASSUME NEW p \in Orders, CommitOrder(p) PROVE charge'[o] = charge[o]
    <3>1. Commits(p)
      BY <2>2, CommitEffect DEF AloneInv, SettleInv
    <3>. QED  BY <3>1 DEF Commits, NoCharge
  <2>3. ASSUME NEW w \in Workers, Fulfill(w) PROVE charge'[o] = charge[o]
    <3>1. PICK p \in Orders :
            /\ \E e \in work[w] : p \in ChargeOf(e)
            /\ Settles(p, "PAID", "VALID", "CONFIRMED") \/ Settles(p, "FAILED", "VOID", "FAILED")
      BY <2>3, FulfillEffect DEF AloneInv, SettleInv
    <3>2. p # o
      BY <3>1 DEF AloneInv, WorkPending
    <3>. QED  BY <3>1, <3>2 DEF Settles
  <2>4. charge' = charge \/ (\E p \in Orders : CommitOrder(p)) \/ (\E w \in Workers : Fulfill(w))
    BY DEF Next, dbVars, OpenCheckout, RollBackOrder, GatewayReports, Redeliver, DeadLetter,
         FindCharge, FulfillmentFails, ReadForCheckIn, CheckIn, ReadForRename, UpdateHolderName
  <2>. QED  BY <2>1, <2>2, <2>3, <2>4
<1>. QED  BY <1>1, AloneInvariant, PTL DEF Spec, ChargeFinal
=============================================================================
