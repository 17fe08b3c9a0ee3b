SPECIFICATION StandaloneSpec
CONSTANTS
  Jobs = {j1, j2}
  Workers = {w1, w2}
  Results = {botWins}
  NoWorker = NoWorker
  NoJob = NoJob
  NoResult = NoResult
  MapsLoaded = TRUE
  MaxFaults = 0
INVARIANT SingleExecution
CHECK_DEADLOCK FALSE
