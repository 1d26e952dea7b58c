\* Two people schedule, send and reverse two payouts while orders are paid and refunded.
SPECIFICATION Spec
CONSTANTS
  Payouts = {p1, p2}
  Operators = {o1, o2}
  MaxAmount = 2
  MaxCredits = 2
  MaxPromised = 1
SYMMETRY Symmetry
INVARIANTS GoneIsCounted AskedOnce
