------------------------ MODULE MCTicketNotification ------------------------
(***************************************************************************)
(* A small instance of TicketNotification for TLC.                         *)
(***************************************************************************)
EXTENDS TicketNotification

\* An order of two tickets, the older of which cannot be delivered.
TwoTickets == 1..2
OneOrder == [t \in TwoTickets |-> 1]
OldestUndeliverable == {1}
=============================================================================
