SPECIFICATION Spec
CONSTANTS
  Tasks = {t1, t2}
  LoopTask = loop
  Posts = {p1, p2}
  Handlers = {h1}
  QueueSize = 1
  TaskWaits = {"finite", "forever"}
  DataKinds = {"heap", "inline"}
  NoTask = NoTask
  NoPost = NoPost
  Dedicated = TRUE
INVARIANT UnqueuedIsDispatched
