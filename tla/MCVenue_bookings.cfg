\* Venue: three bookings of at most two tickets, two of them of one code, one steward, one night.
SPECIFICATION Spec
CONSTANTS
  o1 = o1
  o2 = o2
  o3 = o3
  n1 = n1
  n2 = n2
  Orders = {o1, o2, o3}
  Coded = {o2, o3}
  Size <- BookingSize
  DoorPrice <- BookingCents
  Switches = {TRUE, FALSE}
  Limits = {0, 2}
  MaxUses = 1
  Nights = {n1}
  Own <- BookingOwn
  Stewards = {s1}
  MaxHandOns = 0
INVARIANTS
  UsesAreCounted
  UseComesBack
PROPERTIES
  LimitHolds
CHECK_DEADLOCK FALSE
