SPECIFICATION FairRefundsSpec
CONSTANTS
  alice = alice
  bob = bob
  p1 = p1
  p2 = p2
  hook = hook
  root = root
  milestones = milestones
  None = None
  Contributors = {alice, bob}
  Payees = {}
  Admin = milestones
  Signers = {}
  MilestonesContracts = {}
  Target = 9
  Deadline = 0
  MaxTime = 1
  FeeInputs = {0}
  DepositAmounts = {5}
  ReleaseAmounts = {}
  OverrideAmounts = {}
  DirectAmounts = {}
  TokenSupply = 10
  MaxApproved = 0
  Rows = {p1, p2}
  SenderOf <- MCSenderOf
  AmountOf <- MCAmountOf
  Hook = hook
  Admins = {root}
  MaxFaults = 2
INVARIANTS RefundsTypeOK AnsweredOnce
PROPERTY EveryRowIsAnswered
CHECK_DEADLOCK FALSE
