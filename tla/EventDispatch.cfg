SPECIFICATION DispatchSpec
CONSTANTS
  Bases = {b1, b2}
  Ids = {i1, i2}
  ANY = any
  Callbacks = {f1}
  Args = {a1}
  Contexts = {c1, c2, c3, c4}
  Apis = {"instance"}
  Traced = TRUE
  SelfLevels = {"id"}
  NULL = NULL
INVARIANTS NoUseAfterFree EachDueCalledOnce
