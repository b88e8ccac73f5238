\* Two PIDs compete for one table slot while states expire, are superseded,
\* re-executed, late bound and answered.
SPECIFICATION Spec
CONSTANTS
  Pids = {p1, p2}
  NoPid = NoPid
  NoState = NoState
  Keys = {}
  NoKey = NoKey
  Paths = {a}
  NoPath = NoPath
  Timestamps = {1, 2}
  PreScores = {75}
  ResultStatuses = {"SUCCESS"}
  Weight <- MCWeight
  MaxOccurrences <- MCMaxOccurrences
  AlertMin = 40
  TerminateMin = 70
  QuarantineMin = 90
  StateTtl = 1
  ExitedTtl = 1
  LateBindingWindow = 1
  InheritanceWindow = 1
  MaxStates = 1
  MaxClock = 2
  MaxGeneration = 2
SYMMETRY Symmetry
INVARIANTS VerdictIsCurrent GenerationsAccountedFor ParentLinksReal ResultsMatchExecution
PROPERTIES VerdictNeverWeakens PreExecutionBoundOnce
