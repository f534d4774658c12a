\* The final return of a report against the growth of its portfolio.
CONSTANTS
  Clients    <- MCClients
  AssetIds   <- MCAssetIds
  CategoryOf <- MCCategoryOf
  One = 2
  Books     <- MCBooks
  Queries   <- MCQueries
  Variables <- MCVariables
  Longest = 12
SPECIFICATION Spec
INVARIANT
  FinalReturnIsGrowth
