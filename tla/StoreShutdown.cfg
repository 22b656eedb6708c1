SPECIFICATION Spec
CONSTANTS
  w = w
  Writers = {w}
  BufferMax = 2
  MaxRequests = 3
INVARIANTS NoneLostOnShutdown
