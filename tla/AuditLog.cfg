\* Two processes append, rotate, fail, crash and start again; a record may be
\* changed on disk, and the next start refuses it or moves the chain away.
SPECIFICATION Spec
CONSTANTS
  Loggers = {l1, l2}
  BackupCount = 1
  MaxLines = 2
  Policies = {"raise", "quarantine"}
  Partial = {"frag"}
  Tampering = TRUE
  MaxRecords = 3
  None = None
INVARIANTS ChainIntact AckedAccounted
PROPERTIES CallsComplete
CHECK_DEADLOCK FALSE
