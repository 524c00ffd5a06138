SPECIFICATION Spec
CONSTANTS
  first = first
  second = second
  seatA = seatA
  seatB = seatB
  Orders = {first}
  TicketIds = {seatA}
  Items <- OneTicket
  Workers = {w1, w2}
  Clients = {}
  OneOutcome = FALSE
  MaxSessions = 2
  MaxDisruptions = 0
PROPERTY ChargeFinal
CHECK_DEADLOCK FALSE
