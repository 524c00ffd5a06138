SPECIFICATION FairSpec
CONSTANTS
  Rows <- TwoRows
  KeyOf <- TwoKeys
  Dispatchers = {d1, d2}
  Admins = {a1}
  BatchSize = 2
  MaxRetries = 3
  MaxDisruptions = 1
  Faults = {"channel", "nack", "timeout", "crash", "mark"}
INVARIANT TypeOK
INVARIANT NoMessageLost
INVARIANT RetryBound
PROPERTY AtLeastOnce
PROPERTY EventuallySettled
CHECK_DEADLOCK FALSE
