\* Safety of the report, response and send paths, all interleavings.
SPECIFICATION Spec
CONSTANTS
  NRelays = 2
  Buttons = {1}
  ack = ack
  ver = ver
  RespKinds = {ack, ver}
  RespLen <- MCRespLen
  ReportLen = 1
  RingCap = 9
  Mtu = 5
  TxBuffers = 2
  SendTicks = 1
  MaxInputs = 6
INVARIANTS
  TypeOK
  NoUnreportedChange
  ResponseFrameWhole
  OneOutstandingUnlessExpired
  PeerAgreesWhenQuiet
