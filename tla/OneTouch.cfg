SPECIFICATION OtSpec
CONSTANTS
 Menu <- MCMenu
 PanelMenu <- MCPanelMenu
 PageOrder <- MCPageOrder
 ExtraRows <- MCExtraRows
 Functions <- MCFunctions
 DayChoices <- MCDayChoices
 Requests <- MCRequests
 MAX_RECOVERY_ATTEMPTS = 2
 MAX_BACK_PRESSES = 3
 MAX_RECOMPUTE_COUNT = 6
 MAX_STUCK_RECOMPUTES = 3
 MAX_WAIT_CYCLES = 6
 MAX_TRANSIENT_WAITS = 3
 MAX_CURSOR_MOVES = 8
 SYNC_REQUIRED_CONSISTENT_COUNT = 3
 MAX_ITEM_SCROLL_ATTEMPTS = 2
 MAX_CURSOR_STUCK_COUNT = 3
 MAX_NAVIGATION_FAILURES = 3
 STEP_LIMIT = 120
 MAX_SCROLL = 5
 MAX_STEP = 5
 HOURS = 3
 MINUTES = 3
 TopValue = 5
 Seeded = FALSE
 ONETOUCH_FAULT_RECOVERY_STATUS_FRAMES = 3
 ONETOUCH_SETPOINT_REFRESH_STEP_LIMIT = 30
 PageLag = 0
 MaxRequests = 1
 MaxFaults = 1
INVARIANTS PanelInHand
PROPERTIES EverythingEnds
CHECK_DEADLOCK FALSE
