SPECIFICATION Spec
CONSTANTS
  Versions = {a, b}
  NoVersion = none
  Plans = {1, 2, 3}
  Stagger = 1
  ConvergeAfter = 1
  BackoffMax = 1
  Limit = 2
  Frames = 1
  CanWrite = {TRUE, FALSE}
  Events = {"retry", "switch", "push", "redeploy"}
  MaxEvents = 1
INVARIANTS OneAttempt BreakerHolds
 
SYMMETRY VersionSymmetry
