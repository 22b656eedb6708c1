SPECIFICATION PollingSpec
CONSTANTS
  s = s
  t = t
  Endpoints = {"e", "f"}
  Ids = {s}
  NoId = NoId
  NoAnswer = NoAnswer
  Parent <- NoParents
  Directory <- OneDirectory
  Depth = 2
  Interval = 2
  Grace = 12
  MaxPass = 1
  Outages = FALSE
INVARIANT KeptFresh
