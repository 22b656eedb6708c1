SPECIFICATION AppFairSpec
CONSTANTS
  s = s
  t = t
  w = w
  Writers = {w}
  BufferMax = 2
  MaxRequests = 3
  Absent = Absent
  Wrong = Wrong
  Missing = Missing
  Files <- SomeFiles
  Paths <- SomePaths
  Providers <- TwoProviders
  Generic <- GenericHeaders
  Fields <- BodyFields
  Requests <- SomeRequests
  Endpoints = {"e"}
  Ids = {s, t}
  NoId = NoId
  NoAnswer = NoAnswer
  Parent <- Cycle
  Directory <- OneDirectory
  Depth = 2
  Interval = 2
  Grace = 4
  MaxPass = 1
  Outages = TRUE
INVARIANTS RoutedToLongest WsMirrorsHttp OneRuntimeEach EnvPrecedence 
INVARIANTS KeptFresh CycleSafe StoreTypeOK RequestsAccounted NewestStaged
PROPERTIES ReportTruthful NoSilentLoss Recovers
CHECK_DEADLOCK FALSE
SYMMETRY Exchange
