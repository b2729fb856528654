CONSTANTS
  Graphs <- MCGraphs
  MaxPasses = 8
  U32Max = 24
  Documents <- MCDocuments
  Chunks <- MCChunks
  Dim = 2
  CandidatePool = 3
  Queries <- MCQueries
  Sizes = {1, 30}
  Budgets = {0, 1, 4, 24}
SPECIFICATION QuerySpec
INVARIANT CommunitiesPartition
INVARIANT GraphAnswersAreWithinReach
INVARIANT SearchesKeepTheirHits
INVARIANT NavigationIsFaithful
INVARIANT RepositoryIsReachable
INVARIANT ReadOnlyModifiesNothing
