SPECIFICATION Spec
CONSTANTS
  Messages = {m1}
  p1 = p1
  p2 = p2
  p3 = p3
  w1 = w1
  w2 = w2
  Passes = {p1, p2, p3}
  Workers = {w1, w2}
  WorkerOf <- MCWorkerOf
  MaxAttempts = 2
  MaxMishaps = 2
  NoWorker = NoWorker
  NoPass = NoPass
  NoMessage = NoMessage
INVARIANTS TypeOK DuplicatesHaveACause
PROPERTIES RecordedByHolder LeaseIsRespected ImplementsDelivery
CHECK_DEADLOCK FALSE
