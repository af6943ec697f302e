\* The count of pending operations after an enqueue is interrupted.
SPECIFICATION Spec
CONSTANTS
  v1 = v1
  v2 = v2
  Values = {v1, v2}
  late = late
  OutOfRange = {late}
  Default = Default
  Torn = Torn
  Blank = Blank
  QueueSize = 3
  MaxTries = 2
  EventsInEnqueue = TRUE
  MaxInputs = 1
  MaxFailures = 0
INVARIANTS
  CountIsPending
