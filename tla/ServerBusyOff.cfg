SPECIFICATION Spec
CONSTANTS
  p = p
  Callers = {p}
  Routing = {"queued"}
  IdleTimeout = 1
  Cooldown = 0
  Period = 1
  AdoptOnTraffic = TRUE
  AutoOff = TRUE
  Scheduled = FALSE
  Toggles = {}
  ManualPower = {}
  Faults = {"unknown"}
  MaxPass = 1
  MaxLag = 1
PROPERTY OffOnlyWhileIdle
