\* Touches, scans, sensor failures and the main loop, all interleavings.
SPECIFICATION FairSpec
CONSTANTS
  NButtons = 1
  NRelays = 1
  ClickButtons = {1}
  FilterCnt <- MCFilterCnt
  Clicks = 2
  CountMax = 4
  OnTime = 1
  ConfirmTime = 2
  OffTime = 2
  LongBeeps = 1
  Hold = 5
  Retry = 1
  MaxStall = 1
  MaxInputs = 3
  MaxFailures = 1
INVARIANTS
  TypeOK
  NoTouchIgnored
  BusExclusive
  PinResetNeedsTouch
PROPERTIES
  OneTogglePerTouch
  BuzzerEnds
  SensorRecovers
