\* A phone and a switch: taps, touches, PIN changes, lost links. Both rest
\* once the bounded inputs are over.
SPECIFICATION FairSpec
CONSTANTS
  Pins = {p1, p2}
  Default = p1
  Blank = Blank
  NoPin = NoPin
  Used <- MCUsed
  Mtu = 20
  TxBuffers = 2
  MaxInputs = 3
  MaxDrops = 1
CHECK_DEADLOCK FALSE
INVARIANTS
  TypeOK
  CacheAgreesWhenQuiet
  PinsAgreeWhenQuiet
PROPERTIES
  ForgetsOnlyIfRefusedOrGarbled
  LogsOnAgain
