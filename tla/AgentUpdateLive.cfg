SPECIFICATION FairSpec
CONSTANTS
  Versions = {a, b}
  NoVersion = none
  Plans = {1, 2, 3}
  Stagger = 1
  ConvergeAfter = 1
  BackoffMax = 1
  Limit = 1
  Frames = 1
  CanWrite = {TRUE}
  Events = {"redeploy"}
  MaxEvents = 1
PROPERTY FollowsServer
