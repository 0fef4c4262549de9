SPECIFICATION Spec
CONSTANTS
  Terms = {"a", "b"}
  MaxTerminals = 1
  MaxFrames = 2
  MaxSessions = 2
  Ids = {"i", "j"}
  Sockets = {"s"}
  Requests = {"q", "r"}
  MaxInflight = 1
  Burst = 2
  MaxFails = 2
  MaxTicks = 2
  Hosts = {"g", "h"}
  Nodes = {"m", "n"}
  Tokens = {"t", "u", "v"}
  MaxSecrets = 3
  MaxMishaps = 1
  Ifaces = {"eth", "wan"}
  Default = "eth"
  MaxBytes = 2
  MaxConns = 2
  MaxReports = 1
  MaxDays = 1
  CycleDays = 1
  Quota = 1
  MaxEdits = 1
  LastDay = 5
  Stages = {1, 2}
  MaxDates = 3
  Mirrors <- TwoMirrors
  MaxDocs = 2
  MaxTurns = 3
INVARIANTS ShellHasOwner EvictedIsCut NothingCountedTwice RemindedOnce  IndexIsCache
PROPERTY SecretsStay
CHECK_DEADLOCK FALSE
