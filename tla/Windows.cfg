\* One watched root, a file inside the policy and an excluded name, one worker and
\* one place: every two operations on the files and any one fault.
SPECIFICATION Spec
CONSTANTS
  Roots = {r1}
  Names = {a, b}
  RootOf <- MCRootOf
  Present = {a}
  Excluded = {b}
  Workers = {w1}
  MaxPending = 1
  RetryAttempts = 1
  MaxOps = 3
  MaxFaults = 1
  None = None
INVARIANTS ChangesReported VerdictOfOneVersion
PROPERTIES PendingImplementsAdmission EventsRecorded
CHECK_DEADLOCK FALSE
