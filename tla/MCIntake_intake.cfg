SPECIFICATION Spec
CONSTANTS
  Events = {e1, c1}
  Callbacks = {c1}
  Handlers = {h1, h2, h3}
  ProcessInline = TRUE
  MAX_ATTEMPTS = 3
  MaxUpsets = 3
  MaxCrashes = 2
  NoEvent = NoEvent
INVARIANTS OneHandlerAtATime WorkedOnce
PROPERTIES VerdictsStand
