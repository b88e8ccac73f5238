\* Two executions over two descriptor numbers, one worker, one analysis thread.
SPECIFICATION Spec
CONSTANTS
  Events = {e1, e2}
  Files <- HardFiles
  Fds = {1, 2}
  QueueLimit = 1
  MaxPending = 1
  Workers = 1
  AnalysisWorkers = 1
  MaxModeChanges = 1
  Overflow = Overflow
  None = None
INVARIANTS AnswersMatch DescriptorsHeld DenyJustified RecordsTruthful
PROPERTIES SaturationReal EventsAnswered
CHECK_DEADLOCK FALSE
