SPECIFICATION Spec
CONSTANTS
  Value = {0, 1}
  Default = 0
  None = None
  Found <- MCFound
  Pages = 2
  QUIET_MS = 2
  CutInErase = TRUE
  MaxChanges = 4
  MaxRestarts = 2
  MaxFaults = 1
INVARIANT NotReinterpreted
CHECK_DEADLOCK FALSE
