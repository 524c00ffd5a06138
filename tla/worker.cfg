SPECIFICATION FairWorkerSpec
CONSTANTS
  Rows <- ThreeRows
  KeyOf <- ReusedKey
  Dispatchers = {d1}
  Admins = {a1}
  BatchSize = 2
  MaxRetries = 2
  MaxDisruptions = 1
  Faults = {"channel", "nack", "timeout", "crash", "mark"}
INVARIANT WorkerTypeOK
INVARIANT NoWakeupLost
INVARIANT DeadLetterExhausted
PROPERTY DocumentedTransitions
PROPERTY PollingSuffices
CHECK_DEADLOCK FALSE
