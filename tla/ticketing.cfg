SPECIFICATION FairSpec
CONSTANTS
  first = first
  second = second
  seatA = seatA
  seatB = seatB
  Orders = {first, second}
  TicketIds = {seatA, seatB}
  Items <- Overlapping
  Workers = {w1, w2}
  Clients = {c1, c2}
  OneOutcome = TRUE
  MaxSessions = 2
  MaxDisruptions = 1
INVARIANT TypeOK
INVARIANT IssuedOnlyIfConfirmed
INVARIANT SettledTogether
INVARIANT SingleEntry
INVARIANT RenamedAreIssued
PROPERTY PaymentsDecided
CHECK_DEADLOCK FALSE
