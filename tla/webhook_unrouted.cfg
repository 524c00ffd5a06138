SPECIFICATION IngestionSpec
CONSTANTS
  Names <- Pairs
  Registry <- Registered
  ToUpper <- Upper
  ToLower <- Lower
  Requests <- FewRequests
  Kinds = {"session", "intent"}
  Blank = ""
  MaxRequests = 1
  MaxDeliveries = 5
  MaxFailures = 0
INVARIANT WebhooksKept
CHECK_DEADLOCK FALSE
