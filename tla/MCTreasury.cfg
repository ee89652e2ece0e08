SPECIFICATION DeskSpec
CONSTANTS
  alice = alice
  bob = bob
  Contributors = {alice, bob}
  Policies <- MCPolicies
  Deadline = 2
  Goal = 7
  ContributionAmounts <- MCContributionAmounts
  WithdrawalAmounts = {0, 2, 3}
  TransferAmounts = {8}
  MaxHistory = 2
  MaxRequests = 3
  MaxBooked = 8
  TokenSupply = 8
  MaxTime = 3
  CustodialLimit = 4
SYMMETRY MCSymmetry
INVARIANTS DeskTypeOK WithdrawalsAreSound
PROPERTY ParkedUntilPaid
CHECK_DEADLOCK FALSE
