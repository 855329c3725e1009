SPECIFICATION FairSpec
CONSTANTS
  home = home
  office = office
  key1 = key1
  key2 = key2
  typo = typo
  None = None
  Off = Off
  Creds <- HomeAndATypo
  Works <- RightOne
  JOIN_ATTEMPTS = 2
  TRIAL_ATTEMPTS = 2
  AP_GRACE = 1
  PORTAL_RETRY = 2
  LINK_DOWN = 2
  Persists = {TRUE}
  MaxPeople = 1
  MaxPosts = 1
  MaxWipes = 0
  MaxOutages = 1
  MaxFlukes = 0
  MaxCuts = 0
  MaxFaults = 0
  MaxTroubles = 2
PROPERTIES PortalIsNeverTerminal
