SPECIFICATION FairSpec
CONSTANTS
  NPayments = 2
  AmountOf <- MCAmountOf
  Target = 6
  Pledge = 3
  Ratio = 1
  Concurrency = 2
  InitialCursor = 0
  MaxFailures = 1
  MaxMatchFailures = 1
  MaxDisconnects = 1
  MaxCrashes = 1
  MaxFaults = 1
INVARIANTS IngestionTypeOK RecordsAgree
PROPERTIES RecordedUnlessFaulty CursorFollowsSuccess
CHECK_DEADLOCK FALSE
