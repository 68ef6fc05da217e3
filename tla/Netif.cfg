SPECIFICATION Spec
CONSTANTS
  sta = sta
  ap = ap
  br = br
  Netifs = {sta, ap, br}
  Client = {sta}
  Server = {ap}
  AutoUp = {ap}
  Prio <- MCPrio
  Addresses = {A}
  Static = {sta}
  MaxStale <- MCMaxStale
  None = None
INVARIANTS DefaultIsBest StatusAgrees LossIsCovered
PROPERTIES ManualDefaultHolds
