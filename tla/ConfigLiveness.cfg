\* Saving completes, and the pending count is right, when flash events do not
\* interrupt an enqueue.
SPECIFICATION FairSpec
CONSTANTS
  v1 = v1
  v2 = v2
  Values = {v1, v2}
  late = late
  OutOfRange = {late}
  Default = Default
  Torn = Torn
  Blank = Blank
  QueueSize = 3
  MaxTries = 2
  EventsInEnqueue = FALSE
  MaxInputs = 2
  MaxFailures = 1
INVARIANTS
  CountIsPending
  BlankOnlyWhileSaving
PROPERTIES
  EventuallySaved
