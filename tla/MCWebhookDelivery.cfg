SPECIFICATION FairSpec
CONSTANTS
  Workers = {w1, w2}
  MaxAttempts = 2
  MaxReplays = 1
  MaxFailures = 1
INVARIANTS WebhookTypeOK AttemptsAreAccounted
PROPERTIES KeepsPromise EventuallySettled
CHECK_DEADLOCK FALSE
