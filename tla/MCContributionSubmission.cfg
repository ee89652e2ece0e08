SPECIFICATION SubmissionSpec
CONSTANTS
  Keys = {k1}
  Deposits = {d1}
  DepositAssets = {"same"}
  None = None
  MaxCalls = 3
  MaxFailures = 1
  MaxCrashes = 1
  MaxExpiries = 1
INVARIANTS SubmissionTypeOK PaidOncePerKey AnswersAreTrue
CHECK_DEADLOCK FALSE
