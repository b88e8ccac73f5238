\* One client slot, a pool of two threads: the dashboard refresh, a restoration and
\* other local programs compete for it while the daemon starts and stops.
SPECIFICATION Spec
CONSTANTS
  Clients = {refresh, restore}
  Requests <- MCRequests
  MaxClients = 1
  Refresh = refresh
  UserOps = {restore}
  Sections <- MCSections
  OpRequest <- MCOpRequest
  GuiUser = "user"
  Degraded = FALSE
  Workers = 2
  MaxRefreshes = 1
  OtherPrograms <- MCOthers
  None = None
INVARIANTS  StopLeavesNoStranger
PROPERTIES SlotsImplementAdmission RefreshesEnd
CHECK_DEADLOCK FALSE
