SPECIFICATION Spec
CONSTANTS
  ConfigurationStatuses <- ShortConfigurationStatuses
  TemperatureCommands <- ShortTemperatureCommands
  AuxillaryIds <- MCAuxillaryIds
  Span <- MCSpan
  HasCleaner = TRUE
  HasSpillover = TRUE
  SingleBody = FALSE
  Emulations = {TRUE, FALSE}
  GatingDisabled = FALSE
  RealAdapter = TRUE
  Lossy = TRUE
  MaxCommands = 2
INVARIANTS NewestIsKept
PROPERTIES WiresInOrder
