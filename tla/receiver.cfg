SPECIFICATION FairSpec
CONSTANTS
  a = a
  b = b
  Source = {a, b}
  Ip = {a, b}
  IpOf <- OwnIp
  None = None
  Free = Free
  Frames <- TwoSenders
  LOCK = 1
  STREAM_TIMEOUT = 2
  HOLD = 2
  BUSY_MIN = 2
  TELEMETRY_MIN = 0
  IDENTIFY = 0
  LIMIT_SLOTS = 4
  STATS_REQ_SLOTS = 2
  OUTBOX = 4
  SEQ = 3
  COUNTER = 2
  MaxDrain = 2
  DrainTime = 0
  IdleModes = {"Status", "HoldForever"}
  LinkFlaps = TRUE
INVARIANTS SurvivorIsTheHolders LedgerBalances BusyIsHonest
PROPERTIES KeepsStream NeverStolen StreamsEnd HoldEnds AskersAreKept BusyPaced

