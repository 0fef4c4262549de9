SPECIFICATION Spec
CONSTANTS
  Workers = {v, w}
  Args = {a}
  ChangeBudget = 2
  ReadLimit = 1
  RateLimit = 1
  RateWindow = 0
  History = 3
  Strict = TRUE
  MaxRequests = 3
  MaxMessages = 2
  MaxCalls = 2
  MaxClock = 1
SYMMETRY Symmetry
CHECK_DEADLOCK FALSE
INVARIANTS AnswersFollowCalls  RateBound
PROPERTY DecisionsAreFinal
