\* Stock: two checkouts that contend for the last ticket over a clock, with lock waits, payments
\* that outlast their holds, and the webhook that pays an order by itself.
SPECIFICATION HistorySpec
CONSTANTS
  Orders = {o1, o2}
  Holds = {h1, h2}
  Operators = {}
  EventTypes = {"succeeded"}
  RefKnown = {TRUE}
  Capacity = 1
  PromoLimit = 0
  TTL = 1
  MaxQty = 1
  MaxTime = 1
  MaxLag = 1
SYMMETRY Symmetry
INVARIANTS
  OversoldOnlyByLate
PROPERTIES
  ImplementsSale
CHECK_DEADLOCK FALSE
