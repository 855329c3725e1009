SPECIFICATION FairSpec
CONSTANTS
  PORTAL_MS = 3
  ANIM_MS = 2
INVARIANTS FirstHasThePanel NothingOutstays
PROPERTIES NoFlicker PanelSettles
