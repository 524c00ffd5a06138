SPECIFICATION FairSpec
CONSTANTS
  Width = 5
  Base = 2
  Cap = 5
  Tickets <- TwoTickets
  OrderOf <- OneOrder
  Workers = {w1}
  Crons = {c1, c2}
  BatchSize = 2
  Undeliverable <- OldestUndeliverable
  MaxDisruptions = 2
INVARIANT TypeOK
INVARIANT FewDuplicates
INVARIANT WaitsOnSchedule
PROPERTY EmailedAtLeastOnce
PROPERTY EventuallyEmailed
