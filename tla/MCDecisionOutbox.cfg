CONSTANTS
  Operations = {"a"}
  Rows = {1, 2}
  Operation <- MCOperation
  Target <- MCTarget
  Passes = {p1, p2}
  Limit = 2
  MaxAttempts = 2
  Lease = 2
  PendingRetry = 1
  BackoffMax = 2
  MaxPolls = 1
  MaxRevision = 2
  None = None
  Lost = Lost
SPECIFICATION FairSpec
INVARIANTS TypeOK BudgetHolds PublishedIsVisible ReceiptHasAPublisher
PROPERTIES ClosedStays EveryRowSettles
