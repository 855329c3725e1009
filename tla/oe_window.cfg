SPECIFICATION Spec
CONSTANTS
  Levels = {5, 9}
  ScreenLevel = 7
  RawLevel = 20
  None = None
  OVERRIDE_TIME = 2
  MaxChanges = 4
INVARIANTS BothFollowUnhurried LastWrittenFollows
PROPERTIES Quiesces
CHECK_DEADLOCK FALSE
