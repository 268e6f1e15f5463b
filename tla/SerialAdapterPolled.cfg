SPECIFICATION FairSpec
CONSTANTS
  ConfigurationStatuses <- MCConfigurationStatuses
  TemperatureCommands <- MCTemperatureCommands
  AuxillaryIds <- MCAuxillaryIds
  Span <- MCSpan
  HasCleaner = TRUE
  HasSpillover = TRUE
  SingleBody = TRUE
  Emulations = {TRUE}
  GatingDisabled = FALSE
  RealAdapter = FALSE
  Lossy = FALSE
  MaxCommands = 2
INVARIANTS SweepInOrder
PROPERTIES Served
