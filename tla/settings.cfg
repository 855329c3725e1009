SPECIFICATION FairSpec
CONSTANTS
  Value = {0, 1}
  Default = 0
  None = None
  Found <- MCFound
  Pages = 2
  QUIET_MS = 2
  CutInErase = FALSE
  MaxChanges = 4
  MaxRestarts = 2
  MaxFaults = 1
INVARIANT SavedOrPending
PROPERTIES KeepsPromise ChangesReachFlash
CHECK_DEADLOCK FALSE
