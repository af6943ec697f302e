\* Progress of the main loop once the inputs have stopped.
SPECIFICATION FairSpec
CONSTANTS
  NRelays = 2
  Buttons = {1}
  ack = ack
  ver = ver
  RespKinds = {ack, ver}
  RespLen <- MCRespLen
  ReportLen = 1
  RingCap = 9
  Mtu = 5
  TxBuffers = 2
  SendTicks = 1
  MaxInputs = 5
PROPERTIES
  BusyFlagClears
  DrainsWhenInputsStop
