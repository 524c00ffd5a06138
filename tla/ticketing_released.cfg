SPECIFICATION Spec
CONSTANTS
  first = first
  second = second
  seatA = seatA
  seatB = seatB
  Orders = {first, second}
  TicketIds = {seatA}
  Items <- SameTicket
  Workers = {w1}
  Clients = {}
  OneOutcome = TRUE
  MaxSessions = 2
  MaxDisruptions = 0
PROPERTY VoidReleases
CHECK_DEADLOCK FALSE
