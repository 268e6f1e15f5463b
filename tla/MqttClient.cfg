SPECIFICATION FairSpec
CONSTANTS
  Endpoints = {1, 2, 3}
  MaxQueue = 2
  MaxPublishes = 3
  MaxOutages = 2
  MaxStarts = 2
  AttemptRange = 4
  InitialDelay = 1
  MaxDelay = 4
  BrokerAnswers = TRUE
INVARIANTS ClientSafe
PROPERTIES ImplementsFifo Recovers
CHECK_DEADLOCK FALSE
