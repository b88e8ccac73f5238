\* Every kind of file and every layout of a PE image, while the path is given to
\* another file or the file is rewritten once between any two reads.  The denial
\* threshold is lowered so that entropy and location together reach it.
SPECIFICATION ScanSpec
CONSTANTS
  PolicyRules <- EngineRules
  Category <- MCCategory
  Weight <- MCWeight
  Cap <- MCCap
  AllowMonitorMin = 20
  WarnMin = 40
  DenyMin = 45
  DenyMinStatic = 25
  Files = {f1, f2}
  Contents <- MCContents
  Rewrites <- MCRewrites
  Contexts <- MCContexts
  DosSize = 1
  CoffSize = 1
  MagicSize = 1
  BaseSize = 1
  DirSize = 1
  SectionSize = 1
  MaxPeOffset = 2
  MaxOptional = 3
  MaxSections = 3
  BlockSize = 2
  ReadChunk = 4
  MaxReported = 2
  MaxChanges = 1
  None = None
SYMMETRY Symmetry
INVARIANTS EvidenceOfOneFile BlocksCounted PeReportExact VerdictJustified
CHECK_DEADLOCK FALSE
