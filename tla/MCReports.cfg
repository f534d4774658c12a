\* Reports of one or two synced accounts: every book of MCBooks, every query of
\* MCQueries.
CONSTANTS
  Clients    <- MCClients
  AssetIds   <- MCAssetIds
  CategoryOf <- MCCategoryOf
  One = 2
  Books     <- MCBooks
  Queries   <- MCQueries
  Variables <- MCVariables
  Longest = 12
SPECIFICATION Spec
INVARIANTS
  MovementsAreNotReturns
  CumulativeGrowth
  TotalWithinAssets
  FirstTotalIsGrowth
  ReturnsShownAtTheirEnd
  SharesSumToWhole
  SourcesAgree
  WellFormedRequestsEnd
