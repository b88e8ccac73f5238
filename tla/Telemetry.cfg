\* Two CPUs with buffers of one record, a queue of one, one tracked process and
\* one summary: records overtake each other, are lost in both places, and entries
\* are evicted and expire.
SPECIFICATION Spec
CONSTANTS
  Cpus = {c1, c2}
  Activity <- MCActivity
  IgnoredTgids = {9}
  MonitoredUids = {}
  MonitoredTgids = {10}
  IncludeDescendants = TRUE
  MaxTracked = 1
  QueueSize = 1
  RingSize = 1
  Window = 1
  Ttl = 1
  MaxStates = 1
  MaxFiles = 1
  MaxEvents = 3
  MaxClock = 3
  Null = Null
INVARIANTS LossAccounted RenamesDeduplicated SummariesMatchHistory
SYMMETRY Symmetry
CHECK_DEADLOCK FALSE
