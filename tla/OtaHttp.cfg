SPECIFICATION FairSpec
CONSTANTS
  Calls = 2
  Requests = {1, 2}
  Responses <- Answers
  PollTimeout = 2
  Unknown = Unknown
  None = None
  Slow = FALSE
INVARIANTS EveryPbufOnce WindowReopened ImageIsReceived UpdateIsClosed
PROPERTY RequestEnds
CHECK_DEADLOCK FALSE
