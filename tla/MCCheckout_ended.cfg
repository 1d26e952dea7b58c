\* Ended: two checkouts that contend for tickets and a promo code's last use, slow payments and
\* lock waits, an operator, the deletion: who ends what, and whose holds are whose.
SPECIFICATION Spec
CONSTANTS
  Orders = {o1, o2}
  Holds = {h1, h2}
  Operators = {op1}
  EventTypes = {}
  RefKnown = {TRUE}
  Capacity = 2
  PromoLimit = 1
  TTL = 1
  MaxQty = 1
  MaxTime = 1
  MaxLag = 1
SYMMETRY Symmetry
INVARIANTS
  PromoUsesExact
  PendingHoldsItsTickets
CHECK_DEADLOCK FALSE
