\* One caller at a time quarantines, restores and deletes one item; every call may
\* fail, and storage may corrupt the payload.
SPECIFICATION Spec
CONSTANTS
  Threads = {t1}
  Paths = {pa, pb}
  Ids = {q1}
  Ops = {"quarantine", "restore", "delete"}
  EnvOps = {"create", "write", "corrupt"}
  Faults = {"move", "copy", "publish", "metadata", "unlink", "restore", "deleteSync", "rollback"}
  MayCrash = FALSE
  MaxInode = 5
  MaxBytes = 3
  None = None
SYMMETRY Symmetry
INVARIANTS RestoreFaithful StatusTruthful
CHECK_DEADLOCK FALSE
