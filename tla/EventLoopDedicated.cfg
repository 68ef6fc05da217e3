SPECIFICATION FairSpec
CONSTANTS
  Tasks = {t1, t2}
  LoopTask = loop
  Dedicated = TRUE
  Posts = {p1, p2, p3, p4}
  Handlers = {h1, h2}
  QueueSize = 2
  TaskWaits = {"forever"}
  DataKinds = {"heap"}
  NoTask = NoTask
  NoPost = NoPost
INVARIANTS CopyOwned NoCallAfterUnregister
PROPERTIES ImplementsService AcceptedIsDispatched BlockedPosterIsServed
