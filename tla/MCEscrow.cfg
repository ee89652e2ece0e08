SPECIFICATION FairSpec
CONSTANTS
  alice = alice
  bob = bob
  creator = creator
  vendor = vendor
  admin = admin
  auditor = auditor
  milestones = milestones
  None = None
  Contributors = {alice, bob}
  Payees = {creator, vendor}
  Admin = admin
  Signers = {auditor}
  MilestonesContracts = {milestones}
  Target = 9
  Deadline = 1
  MaxTime = 2
  FeeInputs = {1000, 1500}
  DepositAmounts = {4, 5}
  ReleaseAmounts = {3}
  OverrideAmounts = {2}
  DirectAmounts = {1}
  TokenSupply = 10
  MaxApproved = 6
INVARIANTS TypeOK BooksAgree RefundsSolvent RefundsAreFair
PROPERTIES ClosedIsFinal EveryContributorRefunded
CHECK_DEADLOCK FALSE
