SPECIFICATION PollingSpec
CONSTANTS
  s = s
  t = t
  Endpoints = {"e"}
  Ids = {s}
  NoId = NoId
  NoAnswer = NoAnswer
  Parent <- NoParents
  Directory <- OneDirectory
  Depth = 2
  Interval = 2
  Grace = 12
  MaxPass = 1
  Outages = FALSE
PROPERTY WaitingKept
