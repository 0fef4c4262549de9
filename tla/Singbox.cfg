SPECIFICATION FairSpec
CONSTANTS
  v1 = v1
  v2 = v2
  c1 = c1
  c2 = c2
  Versions = {v1}
  Configs = {c1}
  None = none
  Loads <- SomeLoads
  Faults = {"restart", "command", "failure"}
  MaxFaults = 1
  Frames = 1
  MaxDecisions = 2
PROPERTIES RemovalCompletes 
