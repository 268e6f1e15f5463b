SPECIFICATION ServicesSpec
CONSTANTS
  Slots = {c1, c2}
  Addresses = {"a"}
  MaxConnections = 2
  MaxPerIp = 2
  MaxQueue = 1
  Interval = 2
  MaxNews = 2
  Timeout = 2
  MaxChanges = 3
  Followed = {"service_mode"}
  MaxSamples = 4
  MaxFaults = 2
  MaxTime = 3
  MinInterval = 2
  Retention = 1
  Hardware = {"h1", "h2"}
  MaxFinds = 3
  MaxTrouble = 2
  Features = {"bands", "locale"}
  Users = {"u"}
  MaxPuts = 4
  MaxMishaps = 2
INVARIANTS SocketsSafe  StoresSafe
PROPERTIES SocketsServed  
CHECK_DEADLOCK FALSE
