SPECIFICATION FairSpec
CONSTANTS
  p = p
  Callers = {p}
  Routing = {"queued", "unqueued"}
  IdleTimeout = 0
  Cooldown = 0
  Period = 1
  AdoptOnTraffic = TRUE
  AutoOff = TRUE
  Scheduled = FALSE
  Toggles = {}
  ManualPower = {}
  Faults = {"crash", "lostReply", "operatorOff"}
  MaxPass = 0
  MaxLag = 0
INVARIANTS ServerTypeOK MirrorExact
PROPERTIES IdleReclaimed WakeHappens
VIEW LiveView
