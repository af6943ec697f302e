\* Renames at any moment of the arming and checking of the restart's timeout.
SPECIFICATION FairSpec
CONSTANTS
  Modulus = 8
  Interval = 1
  Delay = 3
  MaxRequests = 3
INVARIANTS
  TypeOK
  EarlyOnlyIfDisturbed
PROPERTIES
  RestartFollows
