\* One PID and its evidence: distinct, repeated and reordered keys against the
\* occurrence caps, over two generations.
SPECIFICATION Spec
CONSTANTS
  Pids = {p1}
  NoPid = NoPid
  NoState = NoState
  Keys = {k1, k2, k3}
  NoKey = NoKey
  Paths = {a}
  NoPath = NoPath
  Timestamps = {1}
  PreScores = {75}
  ResultStatuses = {"SUCCESS"}
  Weight <- MCWeight
  MaxOccurrences <- MCMaxOccurrences
  AlertMin = 40
  TerminateMin = 70
  QuarantineMin = 90
  StateTtl = 1
  ExitedTtl = 1
  LateBindingWindow = 1
  InheritanceWindow = 1
  MaxStates = 1
  MaxClock = 1
  MaxGeneration = 2
SYMMETRY Symmetry
INVARIANTS EvidenceCountedOnce
