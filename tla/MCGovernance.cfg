SPECIFICATION DeskSpec
CONSTANTS
  ann = ann
  ben = ben
  Holders = {ann, ben}
  Allotments <- MCAllotments
  MIN_TOKEN_BALANCE = 2
  QUORUM_THRESHOLD = 2
  PROPOSAL_VOTING_PERIOD = 1
  AdminFees <- MCAdminFees
  ProposedFees <- MCProposedFees
  TransferAmounts = {2}
  MaxProposals = 2
  MaxAdminSets = 1
  MaxTime = 2
INVARIANTS GovernanceTypeOK VotingIsSound ProposalRowsAreReal
PROPERTY EveryChangeHasACause
CHECK_DEADLOCK FALSE
