SPECIFICATION ApiSpec
CONSTANTS
  Bases = {b1, b2}
  Ids = {i1, i2}
  ANY = any
  Callbacks = {f1, f2}
  InstanceCallbacks = {f1}
  LegacyIds = {i1}
  Args = {a1}
  Contexts = {c1, c2, c3, c4}
  Apis = {"instance", "legacy"}
  Traced = FALSE
SYMMETRY Symmetry
PROPERTIES InstancesImplementHandlers LegacyKeepsOtherKeys
