SPECIFICATION Spec
CONSTANTS
  p1 = p1
  Payment = {p1}
  AmountOf <- MCAmountOf
  Refunder = {f1, f2, f3}
  RefundAmounts <- Ordinary
  NoPayment = NoPayment
  MaxFaults = 2
INVARIANT NeverOverRefunded
CHECK_DEADLOCK FALSE
