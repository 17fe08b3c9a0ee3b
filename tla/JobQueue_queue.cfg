SPECIFICATION StandaloneSpec
CONSTANTS
  Jobs = {j1, j2}
  Workers = {w1, w2, w3}
  Results = {botWins}
  NoWorker = NoWorker
  NoJob = NoJob
  NoResult = NoResult
  MapsLoaded = TRUE
  MaxFaults = 2
INVARIANTS QueueInv
PROPERTIES LivesAsPromised EveryJobSettles
CHECK_DEADLOCK FALSE
