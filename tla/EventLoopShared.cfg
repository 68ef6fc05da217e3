SPECIFICATION Spec
CONSTANTS
  Tasks = {t1, t2}
  LoopTask = loop
  Dedicated = FALSE
  Posts = {p1, p2, p3}
  Handlers = {h1}
  QueueSize = 1
  TaskWaits = {"finite", "forever"}
  DataKinds = {"heap", "inline"}
  NoTask = NoTask
  NoPost = NoPost
INVARIANT DispatchExclusive
CHECK_DEADLOCK FALSE
