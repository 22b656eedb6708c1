SPECIFICATION Spec
CONSTANTS
  a = a
  b = b
  Keys = {a, b}
  NoKey = NoKey
  MaxRequests = 3
  Known = {}
  Ancestors <- NoParents
  ManualKeys = {}
  Reports = {}
  MaxSpots = 1
  Cap = 1
  Atomic = FALSE
  Immediate = FALSE
  BusyWindow = 1
  Expiry = 2
  Grace = 1
  MaxLag = 1
SYMMETRY Symmetry
INVARIANTS TypeOK SlotAccounting SpotHolder RunnerKeepsSpot SessionCap
PROPERTIES SessionOrder PoolImplemented NoLostWakeup WorkloadImplemented
