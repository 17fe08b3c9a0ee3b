SPECIFICATION FairSeriesSpec
CONSTANTS
  Format = 3
  BotA = BotA
  BotB = BotB
  Draw = Draw
  Jobs <- Games
  Results <- GameResults
  Workers = {w1}
  NoWorker = NoWorker
  NoJob = NoJob
  NoResult = NoResult
  MapsLoaded = TRUE
  MaxFaults = 1
  SQLAccepted = FALSE
PROPERTY SeriesEnds
CHECK_DEADLOCK FALSE
