SPECIFICATION SchedulesSpec
CONSTANTS
  Schedules = {s1}
  Workers = {w1, w2}
  AmountOf <- MCAmountOf
  LimitOf <- MCLimitOf
  EndOf <- MCEndOf
  Raised = 3
  LastDate = 3
  MaxDenied = 2
SYMMETRY Symmetry
INVARIANTS PayoutTypeOK PayoutsAreSound
CHECK_DEADLOCK FALSE
