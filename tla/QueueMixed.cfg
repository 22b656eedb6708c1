SPECIFICATION WsSpec
CONSTANTS
  a = a
  b = b
  Keys = {a, b}
  NoKey = NoKey
  MaxRequests = 2
  Known = {b}
  Ancestors <- BChildOfA
  ManualKeys = {b}
  WsKeys = {a, b}
  Reports = {"idle", "waiting"}
  MaxSpots = 1
  Cap <- NoCap
  Atomic = TRUE
  Immediate = TRUE
  BusyWindow = 0
  Expiry = 2
  Grace = 1
  MaxLag = 1
INVARIANTS SpotsBounded AtomicExclusion WsAccounting OpenKeepsSpot
PROPERTIES CooldownHonoured NoLostWakeup
