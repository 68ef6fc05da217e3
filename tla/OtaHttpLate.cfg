SPECIFICATION Spec
CONSTANTS
  Calls = 2
  Requests = {1, 2}
  Responses <- Answers
  PollTimeout = 2
  Unknown = Unknown
  None = None
  Slow = TRUE
INVARIANT EndComesLast
CHECK_DEADLOCK FALSE
