SPECIFICATION Spec
CONSTANTS
  Refunds = {r1, r2}
  Legacy = {r1}
  Operators = {o1}
  Quantity = 2
  Price = 1
  MaxSends = 2
INVARIANTS
  TypeOK
  CountersMatchRefunds
  NeverPastPaid
  TruthfulOutcomes
  RefundedTicketsDoNotAdmit
PROPERTIES
  ImplementsPayback
CHECK_DEADLOCK FALSE
