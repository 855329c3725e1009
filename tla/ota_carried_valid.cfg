SPECIFICATION Spec
CONSTANTS
  Offered <- MCOffered
  CONFIRM_NOT_BEFORE = 1
  HTTP_GRACE = 2
  REVERT_AT = 3
  FailureDamage = FALSE
  MaxUploads = 2
  MaxCuts = 1
  MaxFaults = 0
INVARIANT NothingUnvouchedIsPermanent
CHECK_DEADLOCK FALSE
