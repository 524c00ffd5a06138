----------------------------- MODULE MCTicketing -----------------------------
(***************************************************************************)
(* Small instances of Ticketing for TLC.                                   *)
(***************************************************************************)
EXTENDS Ticketing, TLC

CONSTANTS first, second, seatA, seatB

\* Two orders that want one of the tickets both.
Overlapping == (first :> {seatA, seatB}) @@ (second :> {seatA})

\* One order for one ticket.
OneTicket == first :> {seatA}
\* Two orders, one after the other, for the same ticket.
SameTicket == (first :> {seatA}) @@ (second :> {seatA})
=============================================================================
