\* Venue: a booking of two tickets for every night with a fee to refund, two stewards, two nights.
SPECIFICATION Spec
CONSTANTS
  o1 = o1
  o2 = o2
  o3 = o3
  n1 = n1
  n2 = n2
  Orders = {o1}
  Coded = {}
  Size <- DoorSize
  DoorPrice <- DoorCents
  Switches = {TRUE}
  Limits = {2}
  MaxUses = 0
  Nights = {n1, n2}
  Own <- DoorOwn
  Stewards = {s1, s2}
  MaxHandOns = 1
SYMMETRY Symmetry
INVARIANTS
  SoldIsWhatIsBooked
PROPERTIES
  ImplementsDues
CHECK_DEADLOCK FALSE
