SPECIFICATION Spec
CONSTANTS
  InboundPorts = {1, 2}
  Editors = {e1, e2}
  Known = {TRUE}
  Plain = {"vless"}
  Starts <- Files
  MaxFile = 2
  MaxOps = 1
  MaxEvents = 2
  Ports = {1, 2}
  Legs = {leg}
  Start = {1}
  MaxChanges = 2
  MaxSaves = 1
  MaxRuns = 2
  Sources = {1}
  Ifaces = {eth0}
  AnyIface = any
  Dsts = {d1, d2}
  MaxRules = 2
  MaxAsks = 1
  MaxHands = 3
  Formats = {"singbox", "clash"}
  Unpinned = "auto"
  TemplateIds = {"t"}
  MaxTokens = 2
  MaxFields = 2
  MaxWrites = 2
  MaxFetches = 1
  MaxStarts = 2
SYMMETRY Symmetry
INVARIANTS OptimismIsDeclared OptOutHolds  
PROPERTIES RestartKeepsOperatorContent GuardedEntryStays OnlyNamedIsRemoved ReturnPathKept
CHECK_DEADLOCK FALSE
