\* Safety of saving the configuration, all interleavings, resets included.
SPECIFICATION Spec
CONSTANTS
  v1 = v1
  v2 = v2
  Values = {v1, v2}
  late = late
  OutOfRange = {late}
  Default = Default
  Torn = Torn
  Blank = Blank
  QueueSize = 3
  MaxTries = 2
  EventsInEnqueue = TRUE
  MaxInputs = 3
  MaxFailures = 2
SYMMETRY ValueSymmetry
INVARIANTS
  TypeOK
  SavedWhenSettled
  OneFlashOperationAtATime
  QueueHasRoom
PROPERTIES
  ImplementsSavedConfig
