SPECIFICATION FairSpec
CONSTANTS
  f1 = f1
  f2 = f2
  Patch = {f1, f2}
  Fallback1 = f1
  Fallback2 = f2
  Faulty = {f1}
  Shown = {f1}
  First = f1
  MAX_FAULTS = 2
  None = None
  Held = Held
  Watchdog = Watchdog
  Api = Api
  MaxCores = 4
  MaxTurns = 2
INVARIANT OneRenderer
PROPERTIES Recovers ShutdownEnds
CHECK_DEADLOCK FALSE
