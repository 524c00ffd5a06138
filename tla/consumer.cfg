SPECIFICATION FairSpec
CONSTANTS
  Messages = {order, stale}
  BadSchema = {stale}
  Loadtest = {stale}
  Consumers = {c1, c2}
  Prefetch = 2
  MaxDeliveries = 2
  MaxToolRuns = 1
  MaxDisruptions = 2
INVARIANT TypeOK
INVARIANT MessageKept
INVARIANT DeadLetteredExhausted
PROPERTY PurgeScansAll
PROPERTY PurgeEnds
PROPERTY EventuallyHandled
CHECK_DEADLOCK FALSE
