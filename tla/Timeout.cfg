\* A counter of 32 values advanced by 3, so that it wraps at every phase.
SPECIFICATION Spec
CONSTANTS
  MaxTurns = 2
  Modulus = 32
  Interval = 3
  Durations = {0, 3, 7, 30}
INVARIANTS
  TypeOK
  NeverEarly
PROPERTIES
  TimeLeftWithinTurn
