SPECIFICATION Spec
CONSTANTS
  f1 = f1
  f2 = f2
  Patch = {f1, f2}
  Fallback1 = f1
  Fallback2 = f2
  Faulty = {f1}
  Shown = {f2}
  First = f1
  MAX_FAULTS = 2
  None = None
  Held = Held
  Watchdog = Watchdog
  Api = Api
  MaxCores = 2
  MaxTurns = 2
PROPERTIES OutgoingTakesNobody
CHECK_DEADLOCK FALSE
