\* Money: every webhook in every order, callbacks that overtake the request, two operators, slow
\* payments and the deletion about one order: what it may never do, and that it ends.
SPECIFICATION FairSpec
CONSTANTS
  Orders = {o1}
  Holds = {h1}
  Operators = {op1, op2}
  EventTypes = {"succeeded", "failed", "canceled", "processing"}
  RefKnown = {TRUE}
  Capacity = 1
  PromoLimit = 1
  TTL = 1
  MaxQty = 1
  MaxTime = 1
  MaxLag = 0
INVARIANTS
  OneFulfilment
  BooksMatchOrders
  SoldIsWhatWasSettled
  PendingHoldsItsTickets
PROPERTIES
  ClosedStaysClosed
  NeverCancelCharged
  EveryOrderEnds
  LapsedHoldsGoBack
CHECK_DEADLOCK FALSE
