\* Two consumer threads bind, rebind, evict, terminate and quarantine at a cap of
\* one binding, while the PID changes hands, its processes exec and exit, and the
\* daemon closes the engine.
SPECIFICATION Spec
CONSTANTS
  Threads = {t1, t2}
  Pids = {p}
  Cids = {c1, c2}
  PidOf <- MCPidOf
  Images = {e1, e2}
  Recommendations = {"TERMINATE", "QUARANTINE"}
  ProtectedPids = {}
  ProtectedImages = {}
  AutomaticActions = TRUE
  EscalateToSigkill = TRUE
  AuditMayFail = FALSE
  MaxBindings = 1
  MaxStart = 2
  MaxJobs = 2
  None = None
SYMMETRY Symmetry
INVARIANTS SignalsReachBoundProcess FdsOwnedOnce
CHECK_DEADLOCK FALSE
