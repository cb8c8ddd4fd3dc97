SPECIFICATION Spec
CONSTANTS
  p1 = p1
  Payment = {p1}
  AmountOf <- MCAmountOf
  Refunder = {f1, f2, f3}
  RefundAmounts <- Unvalidated
  NoPayment = NoPayment
  MaxFaults = 2
SYMMETRY Symmetry
INVARIANTS
  TypeOK
  RefundedIsCovered
  OverRefundNeedsOverlap
  StatusFollowsSum
CHECK_DEADLOCK FALSE
