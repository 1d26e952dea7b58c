\* Tickets: a line of two tickets, one for every night and one for a night, and one successor;
\* two offers, two requests at once, the doors, refunds and withdrawals.
SPECIFICATION Spec
CONSTANTS
  p1 = p1
  p2 = p2
  n1 = n1
  n2 = n2
  Places = {p1, p2}
  Own <- MCOwn
  Tickets = {t1, t2, t3}
  Nights = {n1, n2}
  Offers = {o1, o2}
  Requests = {q1, q2}
SYMMETRY Symmetry
INVARIANTS
  OfferMatchesTicket
  NothingStandsWithdrawn
  RefundsTakeWhatTheyCount
PROPERTIES
  ImplementsAttendance
CHECK_DEADLOCK FALSE
