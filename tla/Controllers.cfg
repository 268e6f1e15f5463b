SPECIFICATION ControllersSpec
CONSTANTS
  SettlePolls = 1
  MaxScrolls = 2
  MaxUnwind = 3
  MaxMenuTries = 2
  PollLimit = 36
  MaxEvents = 2
  Programs <- MCPrograms
  Printed <- MCPrinted
  PPMFrames <- MCPPMFrames
  SaltWindow = 3
  RaiseFrames = 2
  ClearFrames = 3
  MaxCellFrames = 5
  MaxCellOthers = 1
  Relays = {"r1"}
  MaxRequests = 4
  Layouts <- MCLayouts
  Habits = {"cold", "warm"}
  Scanned = {50, 51, 65, 72, 73}
  Firmware = {3, 17}
  MaxFrames = 4
  RealRemotes = {"dual", "link"}
  OwnRemote = "ours"
  SpaButtons = {1, 2}
  OtherAcks <- MCOtherAcks
  MaxPresses = 4
  MaxAsks = 1
INVARIANTS  WritersSafe CellSafe BusShared
PROPERTIES   CellFollowed
CHECK_DEADLOCK FALSE
