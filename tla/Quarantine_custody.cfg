\* Two concurrent quarantines, of one path or of two, with every fault, with
\* crashes, and with programs that create, write, remove and rename.
SPECIFICATION Spec
CONSTANTS
  Threads = {t1, t2}
  Paths = {pa, pb}
  Ids = {q1, q2}
  Ops = {"quarantine"}
  EnvOps = {"create", "write", "remove", "rename"}
  Faults = {"move", "copy", "publish", "metadata", "unlink", "rollback"}
  MayCrash = TRUE
  MaxInode = 4
  MaxBytes = 3
  None = None
SYMMETRY Symmetry
INVARIANTS   FailureLeavesNothing
CHECK_DEADLOCK FALSE
