SPECIFICATION FairSpec
CONSTANTS
  NPayments = 2
  AmountOf <- MCAmountOf
  Target = 6
  Pledge = 3
  Ratio = 1
  Concurrency = 2
  InitialCursor = 0
  MaxFailures = 0
  MaxMatchFailures = 0
  MaxDisconnects = 0
  MaxCrashes = 1
  MaxFaults = 1
PROPERTY EveryPaymentRecorded
CHECK_DEADLOCK FALSE
