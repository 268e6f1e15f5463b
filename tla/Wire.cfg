SPECIFICATION WireSpec
CONSTANTS
  MAX_COMMAND_BUFFER_SIZE = 6
  LineBytes = {250, 255}
  Options <- MCOptions
  Parameters <- MCParameters
  MaxSends = 2
  MaxSent = 1
  MaxOpens = 2
  MaxPacket = 7
  LongData = 3
  PentairEnabled = TRUE
  Capacity = 8
  ReadChunk = 4
  SingleRead = FALSE
  WriteSize = 2
  Traffic <- NoisyTraffic
  SplitMarkers = TRUE
  PortFaults = TRUE
  PortCap = 8
  MaxFrames = 2
  Endless = FALSE
  MaxWrites = 2
  Bytes = {0, 1, 2, 16, 252}
  Lines <- MCLines
  Payloads <- MCPayloads
  Addresses = {0, 16}
  Senders = {16, 80, 96, 112}
  MaxDevices = 2
  Deadline = 1
  Degrees = {1, 2}
  Statuses <- MCStatuses
  MaxHubFrames = 3
  Aux = {4, 8}
  Names <- MCNames
  Models <- MCModels
  Legacy <- MCLegacy
  MaxReports = 4
INVARIANTS PortSafe StreamsIntact MessagesSafe PentairSafe HubSafe AuxSafe
PROPERTIES PollIsSound EachToItsOwn
