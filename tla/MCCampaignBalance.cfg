SPECIFICATION Spec
CONSTANTS
  p1 = p1
  p2 = p2
  p3 = p3
  m1 = m1
  m2 = m2
  Payments = {p1, p2, p3}
  AmountOf <- MCAmountOf
  Target = 10
  Pledge = 2
  Ratio = 1
  Milestones = {m1, m2}
  ShareOf <- MCShareOf
  MaxPasses = 2
INVARIANTS BalanceTypeOK RaisedIsExplained ReleasesAreFair
CHECK_DEADLOCK FALSE
