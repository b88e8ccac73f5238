\* One thread at a time: every kind of recommendation, a protected PID, audit
\* failures, and a process that may ignore the signals.
SPECIFICATION Spec
CONSTANTS
  Threads = {t1}
  Pids = {p, q}
  Cids = {c1, c2}
  PidOf <- MCPidOf
  Images = {e1}
  Recommendations = {"ALERT", "TERMINATE", "QUARANTINE", "DENY", "OTHER"}
  ProtectedPids = {q}
  ProtectedImages = {}
  AutomaticActions = TRUE
  EscalateToSigkill = TRUE
  AuditMayFail = TRUE
  MaxBindings = 1
  MaxStart = 1
  MaxJobs = 3
  None = None
 
PROPERTIES ResponsesComplete
CHECK_DEADLOCK FALSE
