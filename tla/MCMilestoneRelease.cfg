SPECIFICATION FairSpec
CONSTANTS
  Workers = {w1, w2}
  Approvers = {a1}
  None = None
  MaxRounds = 2
  MaxDisturbances = 1
  MaxFaults = 1
INVARIANTS ReleaseTypeOK PaidOnce RowsTellTheLedger StoppedRoundsStayUnpaid
CHECK_DEADLOCK FALSE
PROPERTY AttemptsSettle
