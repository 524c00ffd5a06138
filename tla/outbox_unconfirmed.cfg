SPECIFICATION Spec
CONSTANTS
  Rows <- TwoRows
  KeyOf <- TwoKeys
  Dispatchers = {d1}
  Admins = {}
  BatchSize = 2
  MaxRetries = 5
  MaxDisruptions = 0
  Faults = {"fire"}
INVARIANT PublishedMeansConfirmed
CHECK_DEADLOCK FALSE
