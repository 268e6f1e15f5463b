SPECIFICATION WebSpec
SYMMETRY Symmetry
CONSTANTS
  Users = {u1, u2}
  Kiosk = kioskUser
  Groups = {"administrators", "family"}
  AdminGroup = "administrators"
  Entitlements = {"admin"}
  Admin = "admin"
  Jobs = {j1, j2}
  MaxFailures = 2
  MaxSessions = 2
  MaxRotations = 1
  MaxActs = 2
  Modes = {"open", "token", "auth"}
  Callers <- SmallCallers
  MaxBearers = 2
  MaxWaiting = 2
  Uuids = {u}
  Definitions <- MCDefinitions
  MinutesPerDay = 3
  MinuteLength = 4
  TickInterval = 2
  MaxLate = 1
  LastMinute = 5
  MaxBack = 1
  MaxEdits = 2
  MaxRestarts = 2
INVARIANTS AccountsSafe EntitlementsCurrent  SchedulerSafe
PROPERTIES BannedLearnsNothing NeverMissed
CHECK_DEADLOCK FALSE
