SPECIFICATION FairIngestionSpec
CONSTANTS
  Names <- Pairs
  Registry <- Registered
  ToUpper <- Upper
  ToLower <- Lower
  Requests <- FewRequests
  Kinds = {"session"}
  Blank = ""
  MaxRequests = 2
  MaxDeliveries = 5
  MaxFailures = 1
INVARIANT IngestionTypeOK
INVARIANT AcceptedIsKept
INVARIANT PaymentsKept
PROPERTY AcceptedBecomesOrder
PROPERTY PaymentsReported
CHECK_DEADLOCK FALSE
