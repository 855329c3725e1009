SPECIFICATION FairSpec
CONSTANTS
  home = home
  office = office
  key1 = key1
  key2 = key2
  typo = typo
  None = None
  Off = Off
  Creds <- TwoAndATypo
  Works <- RightOnes
  JOIN_ATTEMPTS = 2
  TRIAL_ATTEMPTS = 2
  AP_GRACE = 1
  PORTAL_RETRY = 2
  LINK_DOWN = 2
  Persists = {TRUE, FALSE}
  MaxPeople = 1
  MaxPosts = 2
  MaxWipes = 1
  MaxOutages = 1
  MaxFlukes = 1
  MaxCuts = 1
  MaxFaults = 1
  MaxTroubles = 3
INVARIANTS AnswerIsHonest FlashIsProven NeverForgets JoinInFlight
PROPERTIES JoinsOnlyHeld PostAnswered ReturnsOnline
