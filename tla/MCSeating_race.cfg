\* Race: three choices of two seats, two orders, the reclaim and the sweep.
SPECIFICATION Spec
CONSTANTS
  Seats = {s1, s2}
  Holds = {h1, h2, h3}
  Orders = {o1, o2}
  TTL = 1
  MaxTime = 2
  MaxLag = 1
SYMMETRY Symmetry
INVARIANTS
  HoldsOwnTheirSeats
  SettlementFindsItsSeats
PROPERTIES
  ImplementsSeatSale
CHECK_DEADLOCK FALSE
