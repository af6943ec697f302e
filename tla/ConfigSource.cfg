\* The source of a store changed by a handler while it is pending.
SPECIFICATION Spec
CONSTANTS
  v1 = v1
  v2 = v2
  Values = {v1, v2}
  late = late
  OutOfRange = {late}
  Default = Default
  Torn = Torn
  Blank = Blank
  QueueSize = 3
  MaxTries = 2
  EventsInEnqueue = FALSE
  MaxInputs = 2
  MaxFailures = 0
PROPERTIES
  SourceKeptUntilStored
