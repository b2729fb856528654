SPECIFICATION MCSpec
CONSTANTS
  Ids <- MCIds
  Corpora <- MCCorpora
  Configs <- MCConfigs
  Lookback = 3
  ContextLimit = 5
  BatchSize = 3
  MaxRuns = 2
  Sites <- MCSites
  Fetchers = {f1, f2}
  Agent <- MCAgent
  DefaultInterval = 1
  Overrides = {3}
  MaxTime = 2
\* A run that has ended and is not repeated.
CHECK_DEADLOCK FALSE
INVARIANT SegmentsCoverBody
INVARIANT IngestedTextIsStored
INVARIANT ReportIsTrue
INVARIANT SlotsKeepTheirDistance
INVARIANT RobotsAreFollowed
INVARIANT EveryPageIsADocument
PROPERTY EveryCrawlEnds
