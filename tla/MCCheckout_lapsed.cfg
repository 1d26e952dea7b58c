\* Finding: a slow payment outlasts the holds of its order.
SPECIFICATION Spec
CONSTANTS
  Orders = {o1, o2}
  Holds = {h1, h2}
  Operators = {}
  EventTypes = {}
  RefKnown = {TRUE}
  Capacity = 1
  PromoLimit = 0
  TTL = 1
  MaxQty = 1
  MaxTime = 1
  MaxLag = 0
SYMMETRY Symmetry
INVARIANTS
  NoOversell
CHECK_DEADLOCK FALSE
