SPECIFICATION CampaignSpec
CONSTANTS
  alice = alice
  bob = bob
  creator = creator
  v1 = v1
  v2 = v2
  first = first
  second = second
  None = None
  Contributors = {alice, bob}
  Payees = {creator}
  Admin = v1
  Successor = v2
  Signers = {}
  MilestonesContracts = {}
  Milestones = {first, second}
  ReleaseBps <- MCReleaseBps
  Target = 8
  Deadline = 1
  MaxTime = 2
  FeeInputs = {1000}
  DepositAmounts <- MCDepositAmounts
  ReleaseAmounts = {}
  OverrideAmounts = {}
  DirectAmounts = {1}
  TokenSupply = 11
  MaxApproved = 0
SYMMETRY MCSymmetry
INVARIANTS CampaignTypeOK ReleasesAreSound
PROPERTY ImplementsCustody
CHECK_DEADLOCK FALSE
