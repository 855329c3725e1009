SPECIFICATION FairSpec
CONSTANTS
  Offered <- MCOffered
  CONFIRM_NOT_BEFORE = 1
  HTTP_GRACE = 2
  REVERT_AT = 3
  FailureDamage = FALSE
  MaxUploads = 3
  MaxCuts = 2
  MaxFaults = 1
INVARIANTS TypeOK AlwaysBoots EscapeHatch PermanentIsVouched ActivationTargetIntact
PROPERTIES KeepsPromise TrialIsDecided ActivationEnds ReturnsToVouched
CHECK_DEADLOCK FALSE
