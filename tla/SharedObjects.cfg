SPECIFICATION PartsSpec
CONSTANTS
  Parts = {"sntp", "tap", "wifi", "list", "default"}
  Storages = {s1, s2}
  Waiters = {t1, t2}
  Fds = {0, 1}
  Opener = t1
  Reader = t2
  Tapers = {t1, t2}
  Calls <- OpenerAndReader
  Drivers = {d1}
  EthTypes = {0, 2}
  MaxLlc = 0
  Frames = {b1, b2, b3}
  RX_QUEUE_MAX_SIZE = 2
  NoDriver = NoDriver
  Ifs = {"sta", "ap"}
  Sta = "sta"
  Order <- TwoHandlersEach
  Netifs = {n1, n2}
  Listers = {u1, u2, u3}
  Entries = {e1, e2}
  Locks = {k1, k2}
  Clients = {t1, t2, t3}
  Loops = {l1, l2, l3}
INVARIANTS
  StorageOutlivesUse
  QueueOutlivesUse FramesHaveOneOwner SelectIsTold CloseWakesReaders
  HandlerHasInterface TablesAgree ListIsProtected CallsUseTheLoop
SYMMETRY FrameSymmetry
CHECK_DEADLOCK FALSE
CONSTRAINT BeforeRace
