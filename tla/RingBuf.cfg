\* A buffer of five cells over two bytes, from any initial contents.
SPECIFICATION Spec
CONSTANTS
  b1 = b1
  b2 = b2
  Data = {b1, b2}
  Size = 5
INVARIANTS
  TypeOK
PROPERTIES
  ImplementsFifo
