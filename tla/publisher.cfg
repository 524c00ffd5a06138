SPECIFICATION FairSpec
CONSTANTS
  BatchSizes <- UpToThree
  MaxMessages = 6
  Faults = {"channel", "nack", "timeout", "fire", "late", "cancel"}
INVARIANT TypeOK
INVARIANT MeetsContract
INVARIANT ChannelDrained
 
CHECK_DEADLOCK FALSE
