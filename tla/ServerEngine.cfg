SPECIFICATION Spec
CONSTANTS
  p = p
  Callers = {p}
  Routing = {"queued"}
  IdleTimeout = 3
  Cooldown = 0
  Period = 1
  AdoptOnTraffic = TRUE
  AutoOff = TRUE
  Scheduled = TRUE
  Toggles = {"disabled"}
  ManualPower = {"off"}
  Faults = {}
  MaxPass = 1
  MaxLag = 0
INVARIANT DeferralEnds
PROPERTIES CooldownDedupe IdleOffEarned OffOnlyOwned
VIEW EngineView
