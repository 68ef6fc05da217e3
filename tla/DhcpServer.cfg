SPECIFICATION Spec
CONSTANTS
  Macs = {m1, m2, m3}
  MaxLease = 3
  Half = 6
  MaxStations = 2
  LeaseTime = 2
  None = None
  Setups <- MCSetups
SYMMETRY Symmetry
INVARIANTS LeaseTable Promise OneTimer
PROPERTY RefusedOnlyWhenFull
