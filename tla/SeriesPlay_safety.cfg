SPECIFICATION SeriesSpec
CONSTANTS
  Format = 3
  BotA = BotA
  BotB = BotB
  Draw = Draw
  Jobs <- Games
  Results <- GameResults
  Workers = {w1, w2}
  NoWorker = NoWorker
  NoJob = NoJob
  NoResult = NoResult
  MapsLoaded = FALSE
  MaxFaults = 1
  SQLAccepted = FALSE
SYMMETRY WorkerSymmetry
INVARIANTS NothingToPropagate GateOrder TallyCoversGames
CHECK_DEADLOCK FALSE
