\* Every stream of bytes of five values, frames of up to two payload bytes.
SPECIFICATION Spec
CONSTANTS
  Modulus = 5
  Start = 4
  LenMax = 2
INVARIANTS
  TypeOK
  NothingInvented
  NothingMissed
  ResyncsWithinAFrame
