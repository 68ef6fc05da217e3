SPECIFICATION FairPartsSpec
CONSTANTS
  Parts = {"run", "tcpip", "ping", "smart"}
  TicksToRun = 5
  MaxDispatch = 3
  Wrap = 9
  Callers = {t1, t2}
  Frames = {f1, f2}
  MboxSize = 2
  Sessions = {s1}
  Pingers = {p1, p2}
  Counts = {0, 2}
  PingWrap = 2
  Acks = {a1, a2}
  MaxCount = 2
INVARIANTS RunIsTimed CallIsAnswered InterfaceOutlivesFrames ResultIsOfBatch SocketsAreClosed
PROPERTIES CallReturns DeletedSessionIsFreed AckTaskEnds
CHECK_DEADLOCK FALSE
