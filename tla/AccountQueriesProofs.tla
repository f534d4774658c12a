------------------------- MODULE AccountQueriesProofs -------------------------
(***************************************************************************)
(* Proofs about AccountQueries, for any tables, clients, reports and syncs *)
(* that write meanwhile: how the parts of a report can disagree, and what  *)
(* of it a day in sync_logs is sure to be in.                              *)
(***************************************************************************)
EXTENDS AccountQueries, SyncServiceProofs

\* No sync removes a row or changes what a row holds.
LEMMA RowsGrow ==
  ASSUME TypeOK, [Next]_vars
  PROVE  /\ holdings \subseteq holdings' /\ AtMostRows(transactions, transactions')
         /\ assets \subseteq assets' /\ syncLogs \subseteq syncLogs'
<1> USE DEF TypeOK, AtMostRows
<1>1. CASE \E r \in Requests, m \in Movements : CreateTransaction(r, m)
  BY <1>1 DEF CreateTransaction
<1>2. CASE ~ \E r \in Requests, m \in Movements : CreateTransaction(r, m)
  BY <1>2 DEF Next, Step, SyncAccount, GetDatesToSync, FetchAccountState,
     FetchNothing, NextAsset, AllAssetsStored, GetCategory, CreateCategory,
     CreateAsset, CreateHolding, AssetStored, MarkDatesAsSynced, Respond,
     CallFails, Crash, local, tables, vars
<1>3. QED
  BY <1>1, <1>2

\* The rows a query returns are rows of the table, all those in its range.
LEMMA RowsRead ==
  ASSUME TypeOK
  PROVE  /\ HoldingRows \subseteq holdings /\ \A p \in HoldingRows : InRange(p)
         /\ \A p \in holdings : InRange(p) => p \in HoldingRows
         /\ TransactionRows \in [Movements -> Nat]
         /\ AtMostRows(TransactionRows, transactions)
         /\ \A m \in Movements : TransactionRows[m] > 0 => InRange(m)
         /\ \A m \in Movements : InRange(m) => TransactionRows[m] = transactions[m]
  BY DEF TypeOK, HoldingRows, TransactionRows, AtMostRows

\* What a report has read is among the rows of its range.
LEMMA RowsUnder ==
  ASSUME TypeOK, QueryTypeOK, RowsInv, at # "idle"
  PROVE  /\ \A k \in Kinds : sums[k] \subseteq HoldingRows
         /\ \A k \in Kinds : AtMostRows(counts[k], TransactionRows)
<1>1. \A k \in Kinds : sums[k] \subseteq HoldingRows
  BY DEF RowsInv, HoldingRows
<1>2. ASSUME NEW k \in Kinds, NEW m \in Movements
      PROVE  counts[k][m] <= TransactionRows[m]
  <2>1. counts[k][m] \in Nat /\ counts[k][m] <= transactions[m]
    BY DEF RowsInv, AtMostRows, QueryTypeOK
  <2>2. QED
    BY <2>1 DEF RowsInv, TransactionRows
<1>3. QED
  BY <1>1, <1>2 DEF AtMostRows

\* Syncs keep the types of the tables.
LEMMA TypesKept ==
  ASSUME IInv, Next
  PROVE  transactions' \in [Movements -> Nat]
<1>1. IInv'
  BY IInvStep
<1>2. QED
  BY <1>1 DEF IInv, TypeOK

\* The initial state.
LEMMA InitInv == QueryInit => IInv /\ QueryInv /\ MarkedInv
<1> SUFFICES ASSUME QueryInit PROVE IInv /\ QueryInv /\ MarkedInv
  OBVIOUS
<1>1. IInv
  BY IInvInit DEF QueryInit
<1>2. QueryTypeOK
  BY DEF QueryInit, QueryTypeOK, NoRows
<1>3. RowsInv /\ LaterInv /\ AssetsInv /\ MarkedInv
  BY SyncAssumption DEF QueryInit, Init, RowsInv, LaterInv, AssetsInv, MarkedInv, NoRows,
     AtMostRows, AfterCategories, AfterTotals, AfterAssets, AfterDetails, Kinds
<1>4. QED
  BY <1>1, <1>2, <1>3 DEF QueryInv

\* Every step keeps the types.
LEMMA TypeKept ==
  ASSUME IInv, QueryInv, [QueryNext]_queryVars
  PROVE  QueryTypeOK'
<1>0. TypeOK /\ QueryTypeOK /\ RowsInv
  BY DEF IInv, QueryInv
<1>a. holdings \subseteq Positions /\ assets \subseteq Assets /\ syncLogs \subseteq Clients \X Days
  BY <1>0 DEF TypeOK
<1> USE DEF QueryTypeOK, RowsInv, Asking, Kinds
<1>1. CASE Next /\ UNCHANGED queryLocal
  BY <1>0, <1>1 DEF queryLocal
<1>2. ASSUME NEW q \in ReportQueries, GetReport(q)
      PROVE  QueryTypeOK'
  BY <1>0, <1>a, <1>2, QueryAssumption DEF GetReport, vars, local, tables
<1>3. CASE Reads
  <2>1. CASE ReadHoldings("categoryHoldings", "category", "categoryTransactions")
    BY <1>0, <1>a, <2>1, RowsRead DEF ReadHoldings, vars, local, tables
  <2>2. CASE ReadTransactions("categoryTransactions", "category", "totalHoldings")
    BY <1>0, <1>a, <2>2, RowsRead DEF ReadTransactions, vars, local, tables
  <2>3. CASE ReadHoldings("totalHoldings", "total", "totalTransactions")
    BY <1>0, <1>a, <2>3, RowsRead DEF ReadHoldings, vars, local, tables
  <2>4. CASE ReadTransactions("totalTransactions", "total", "assets")
    BY <1>0, <1>a, <2>4, RowsRead DEF ReadTransactions, vars, local, tables
  <2>5. CASE ReadHoldings("holdings", "detail", "transactions")
    BY <1>0, <1>a, <2>5, RowsRead DEF ReadHoldings, vars, local, tables
  <2>6. CASE ReadTransactions("transactions", "detail", "byId")
    BY <1>0, <1>a, <2>6, RowsRead DEF ReadTransactions, vars, local, tables
  <2>7. QED
    BY <1>3, <2>1, <2>2, <2>3, <2>4, <2>5, <2>6 DEF Reads
<1>4. CASE GetWithCategories
  BY <1>0, <1>a, <1>4 DEF GetWithCategories, Query
<1>5. ASSUME NEW c \in Clients, GetByIDs(c)
      PROVE  QueryTypeOK'
  BY <1>0, <1>a, <1>5 DEF GetByIDs, vars, local, tables
<1>6. CASE BuildAccountStateByCategory
  BY <1>0, <1>6 DEF BuildAccountStateByCategory, vars, local, tables
<1>7. CASE QueryFails
  BY <1>0, <1>7 DEF QueryFails, vars, local, tables
<1>8. CASE UNCHANGED queryVars
  BY <1>0, <1>8 DEF queryVars, queryLocal, vars, local, tables
<1>9. QED
  BY <1>1, <1>2, <1>3, <1>4, <1>5, <1>6, <1>7, <1>8 DEF QueryNext, Answer

\* Every step keeps what was read among the rows in the tables and the range.
LEMMA RowsKept ==
  ASSUME IInv, QueryInv, [QueryNext]_queryVars
  PROVE  RowsInv'
<1>0. TypeOK /\ QueryTypeOK /\ RowsInv
  BY DEF IInv, QueryInv
<1>g. Next => /\ holdings \subseteq holdings' /\ AtMostRows(transactions, transactions')
              /\ assets \subseteq assets' /\ syncLogs \subseteq syncLogs'
  BY <1>0, RowsGrow
<1>a. /\ transactions \in [Movements -> Nat]
      /\ \A k \in Kinds : counts[k] \in [Movements -> Nat]
  BY <1>0 DEF TypeOK, QueryTypeOK
<1> USE DEF RowsInv, Asking, Kinds, InRange
<1>1. CASE Next /\ UNCHANGED queryLocal
  <2>1. transactions' \in [Movements -> Nat]
    BY <1>0, <1>1, TypesKept
  <2>2. \A k \in Kinds : AtMostRows(counts[k], transactions')
    BY <1>0, <1>1, <1>a, <1>g, <2>1 DEF AtMostRows
  <2>3. QED
    BY <1>0, <1>1, <1>g, <2>2 DEF queryLocal
<1>2. ASSUME NEW q \in ReportQueries, GetReport(q)
      PROVE  RowsInv'
  <2>1. query' \in Query /\ at' = "categoryHoldings"
    BY <1>2, QueryAssumption DEF GetReport
  <2>2. \A k \in Kinds : sums'[k] = {} /\ counts'[k] = NoRows
    BY <1>0, <1>2 DEF GetReport
  <2>3. holdings' = holdings /\ transactions' = transactions
    BY <1>2 DEF GetReport, vars, tables
  <2>4. AtMostRows(NoRows, transactions) /\ \A m \in Movements : ~(NoRows[m] > 0)
    BY <1>a DEF AtMostRows, NoRows
  <2>5. QED
    BY <2>1, <2>2, <2>3, <2>4
<1>3. CASE Reads
  <2>1. CASE ReadHoldings("categoryHoldings", "category", "categoryTransactions")
    BY <1>0, <2>1, RowsRead DEF ReadHoldings, vars, local, tables
  <2>2. CASE ReadTransactions("categoryTransactions", "category", "totalHoldings")
    BY <1>0, <2>2, RowsRead DEF ReadTransactions, vars, local, tables
  <2>3. CASE ReadHoldings("totalHoldings", "total", "totalTransactions")
    BY <1>0, <2>3, RowsRead DEF ReadHoldings, vars, local, tables
  <2>4. CASE ReadTransactions("totalTransactions", "total", "assets")
    BY <1>0, <2>4, RowsRead DEF ReadTransactions, vars, local, tables
  <2>5. CASE ReadHoldings("holdings", "detail", "transactions")
    BY <1>0, <2>5, RowsRead DEF ReadHoldings, vars, local, tables
  <2>6. CASE ReadTransactions("transactions", "detail", "byId")
    BY <1>0, <2>6, RowsRead DEF ReadTransactions, vars, local, tables
  <2>7. QED
    BY <1>3, <2>1, <2>2, <2>3, <2>4, <2>5, <2>6 DEF Reads
<1>4. CASE GetWithCategories
  BY <1>0, <1>4 DEF GetWithCategories, vars, local, tables
<1>5. ASSUME NEW c \in Clients, GetByIDs(c)
      PROVE  RowsInv'
  BY <1>0, <1>5 DEF GetByIDs, vars, local, tables
<1>6. CASE BuildAccountStateByCategory
  BY <1>0, <1>6 DEF BuildAccountStateByCategory, vars, local, tables
<1>7. CASE QueryFails
  BY <1>0, <1>7 DEF QueryFails, vars, local, tables
<1>8. CASE UNCHANGED queryVars
  BY <1>0, <1>8 DEF queryVars, queryLocal, vars, local, tables
<1>9. QED
  BY <1>1, <1>2, <1>3, <1>4, <1>5, <1>6, <1>7, <1>8 DEF QueryNext, Answer

\* Every step keeps later reads above earlier ones.
LEMMA LaterKept ==
  ASSUME IInv, QueryInv, [QueryNext]_queryVars
  PROVE  LaterInv'
<1>0. TypeOK /\ QueryTypeOK /\ RowsInv /\ LaterInv
  BY DEF IInv, QueryInv
<1>h. /\ sums \in [Kinds -> SUBSET Positions] /\ counts \in [Kinds -> [Movements -> Nat]]
      /\ at # "idle" => /\ \A k \in Kinds : sums[k] \subseteq HoldingRows
                       /\ \A k \in Kinds : AtMostRows(counts[k], TransactionRows)
  BY <1>0, RowsUnder DEF QueryTypeOK
<1> USE DEF LaterInv, Asking, AfterTotals, AfterDetails
<1>1. CASE Next /\ UNCHANGED queryLocal
  BY <1>0, <1>1 DEF queryLocal
<1>2. ASSUME NEW q \in ReportQueries, GetReport(q)
      PROVE  LaterInv'
  BY <1>0, <1>2, QueryAssumption DEF GetReport, vars, local, tables
<1>3. CASE Reads
  <2>1. CASE ReadHoldings("categoryHoldings", "category", "categoryTransactions")
    BY <1>h, <1>0, <2>1 DEF ReadHoldings, Kinds, AtMostRows
  <2>2. CASE ReadTransactions("categoryTransactions", "category", "totalHoldings")
    BY <1>h, <1>0, <2>2 DEF ReadTransactions, Kinds, AtMostRows
  <2>3. CASE ReadHoldings("totalHoldings", "total", "totalTransactions")
    BY <1>h, <1>0, <2>3 DEF ReadHoldings, Kinds, AtMostRows
  <2>4. CASE ReadTransactions("totalTransactions", "total", "assets")
    BY <1>h, <1>0, <2>4 DEF ReadTransactions, Kinds, AtMostRows
  <2>5. CASE ReadHoldings("holdings", "detail", "transactions")
    BY <1>h, <1>0, <2>5 DEF ReadHoldings, Kinds, AtMostRows
  <2>6. CASE ReadTransactions("transactions", "detail", "byId")
    BY <1>h, <1>0, <2>6 DEF ReadTransactions, Kinds, AtMostRows
  <2>7. QED
    BY <1>3, <2>1, <2>2, <2>3, <2>4, <2>5, <2>6 DEF Reads
<1>4. CASE GetWithCategories
  BY <1>0, <1>4 DEF GetWithCategories, vars, local, tables
<1>5. ASSUME NEW c \in Clients, GetByIDs(c)
      PROVE  LaterInv'
  BY <1>0, <1>5 DEF GetByIDs, vars, local, tables
<1>6. CASE BuildAccountStateByCategory
  BY <1>0, <1>6 DEF BuildAccountStateByCategory, vars, local, tables
<1>7. CASE QueryFails
  BY <1>0, <1>7 DEF QueryFails, vars, local, tables
<1>8. CASE UNCHANGED queryVars
  BY <1>0, <1>8 DEF queryVars, queryLocal, vars, local, tables
<1>9. QED
  BY <1>1, <1>2, <1>3, <1>4, <1>5, <1>6, <1>7, <1>8 DEF QueryNext, Answer

\* Every step keeps the assets of what was read.
LEMMA AssetsKept ==
  ASSUME IInv, QueryInv, [QueryNext]_queryVars
  PROVE  AssetsInv'
<1>0. TypeOK /\ QueryTypeOK /\ RowsInv /\ LaterInv /\ AssetsInv /\ ForeignKeysHold
  BY DEF IInv, QueryInv
<1>h. /\ sums \in [Kinds -> SUBSET Positions] /\ counts \in [Kinds -> [Movements -> Nat]]
      /\ at # "idle" => /\ \A k \in Kinds : sums[k] \subseteq HoldingRows
                       /\ \A k \in Kinds : AtMostRows(counts[k], TransactionRows)
  BY <1>0, RowsUnder DEF QueryTypeOK
<1> USE DEF AssetsInv, Asking, AfterAssets, Listed
<1>1. CASE Next /\ UNCHANGED queryLocal
  BY <1>0, <1>1 DEF queryLocal
<1>2. ASSUME NEW q \in ReportQueries, GetReport(q)
      PROVE  AssetsInv'
  BY <1>0, <1>2, QueryAssumption DEF GetReport, vars, local, tables
<1>3. CASE Reads
  <2>1. CASE ReadHoldings("categoryHoldings", "category", "categoryTransactions")
    BY <1>h, <1>0, <2>1 DEF ReadHoldings, Kinds, AtMostRows
  <2>2. CASE ReadTransactions("categoryTransactions", "category", "totalHoldings")
    BY <1>h, <1>0, <2>2 DEF ReadTransactions, Kinds, AtMostRows
  <2>3. CASE ReadHoldings("totalHoldings", "total", "totalTransactions")
    BY <1>h, <1>0, <2>3 DEF ReadHoldings, Kinds, AtMostRows
  <2>4. CASE ReadTransactions("totalTransactions", "total", "assets")
    BY <1>h, <1>0, <2>4 DEF ReadTransactions, Kinds, AtMostRows
  <2>5. CASE ReadHoldings("holdings", "detail", "transactions")
    BY <1>h, <1>0, <2>5 DEF ReadHoldings, Kinds, AtMostRows
  <2>6. CASE ReadTransactions("transactions", "detail", "byId")
    <3>1. \A p \in sums["detail"] : p.client \in query.clients
      BY <1>0, <2>6 DEF ReadTransactions, RowsInv, Kinds, InRange
    <3>2. QED
      BY <1>0, <2>6, <3>1 DEF ReadTransactions
  <2>7. QED
    BY <1>3, <2>1, <2>2, <2>3, <2>4, <2>5, <2>6 DEF Reads
<1>4. CASE GetWithCategories
  <2>1. \A p \in sums["total"] : p.asset \in assets
    BY <1>0 DEF RowsInv, Kinds, ForeignKeysHold, Stored
  <2>2. QED
    BY <1>0, <1>4, <2>1 DEF GetWithCategories
<1>5. ASSUME NEW c \in Clients, GetByIDs(c)
      PROVE  AssetsInv'
  <2>1. \A p \in sums["detail"] : p.client = c => p.asset \in AssetsRead(c) \cap assets
    BY <1>0 DEF AssetsRead, RowsInv, Kinds, ForeignKeysHold, Stored
  <2>2. known'[c] = AssetsRead(c) \cap assets /\ \A d \in Clients : d # c => known'[d] = known[d]
    BY <1>0, <1>5 DEF GetByIDs, QueryTypeOK
  <2>3. \A p \in sums["detail"] : p.client \in Clients
    BY <1>0, SyncAssumption DEF QueryTypeOK, Kinds, Position
  <2>4. QED
    BY <1>0, <1>5, <2>1, <2>2, <2>3 DEF GetByIDs
<1>6. CASE BuildAccountStateByCategory
  BY <1>0, <1>6 DEF BuildAccountStateByCategory, vars, local, tables
<1>7. CASE QueryFails
  BY <1>0, <1>7 DEF QueryFails, vars, local, tables
<1>8. CASE UNCHANGED queryVars
  BY <1>0, <1>8 DEF queryVars, queryLocal, vars, local, tables
<1>9. QED
  BY <1>1, <1>2, <1>3, <1>4, <1>5, <1>6, <1>7, <1>8 DEF QueryNext, Answer

\* If no fetch loses data, every step keeps the days that were marked whole.
LEMMA MarkedKept ==
  ASSUME ~LossyFetch, IInv, QueryInv, MarkedInv, [QueryNext]_queryVars
  PROVE  MarkedInv'
<1>0. TypeOK /\ QueryTypeOK /\ RowsInv /\ MarkedInv /\ MarkedDaysComplete
  BY MarkedMeansComplete DEF IInv, QueryInv
<1>g. Next => /\ holdings \subseteq holdings' /\ AtMostRows(transactions, transactions')
              /\ assets \subseteq assets' /\ syncLogs \subseteq syncLogs'
  BY <1>0, RowsGrow
<1>h. sums \in [Kinds -> SUBSET Positions] /\ {"category", "total", "detail"} \subseteq Kinds
  BY <1>0 DEF QueryTypeOK, Kinds
<1> USE DEF MarkedInv, Asking, AfterCategories, InRange
<1>1. CASE Next /\ UNCHANGED queryLocal
  BY <1>0, <1>1, <1>g DEF queryLocal
<1>2. ASSUME NEW q \in ReportQueries, GetReport(q)
      PROVE  MarkedInv'
  BY <1>0, <1>2, QueryAssumption DEF GetReport, vars, local, tables
<1>3. CASE Reads
  <2>1. CASE ReadHoldings("categoryHoldings", "category", "categoryTransactions")
    <3>1. sums'["category"] = HoldingRows
      BY <1>h, <2>1 DEF ReadHoldings
    <3>2. \A p \in Positions : (<<p.client, p.day>> \in marked /\ InRange(p)) => p \in HoldingRows
      BY <1>0, RowsRead DEF MarkedDaysComplete
    <3>3. QED
      BY <1>0, <2>1, <3>1, <3>2 DEF ReadHoldings, vars, tables
  <2>2. CASE ReadTransactions("categoryTransactions", "category", "totalHoldings")
    BY <1>0, <1>h, <2>2 DEF ReadTransactions, vars, tables
  <2>3. CASE ReadHoldings("totalHoldings", "total", "totalTransactions")
    BY <1>0, <1>h, <2>3 DEF ReadHoldings, vars, tables
  <2>4. CASE ReadTransactions("totalTransactions", "total", "assets")
    BY <1>0, <1>h, <2>4 DEF ReadTransactions, vars, tables
  <2>5. CASE ReadHoldings("holdings", "detail", "transactions")
    BY <1>0, <1>h, <2>5 DEF ReadHoldings, vars, tables
  <2>6. CASE ReadTransactions("transactions", "detail", "byId")
    BY <1>0, <1>h, <2>6 DEF ReadTransactions, vars, tables
  <2>7. QED
    BY <1>3, <2>1, <2>2, <2>3, <2>4, <2>5, <2>6 DEF Reads
<1>4. CASE GetWithCategories
  BY <1>0, <1>4 DEF GetWithCategories, vars, local, tables
<1>5. ASSUME NEW c \in Clients, GetByIDs(c)
      PROVE  MarkedInv'
  BY <1>0, <1>5 DEF GetByIDs, vars, local, tables
<1>6. CASE BuildAccountStateByCategory
  BY <1>0, <1>6 DEF BuildAccountStateByCategory, vars, local, tables
<1>7. CASE QueryFails
  BY <1>0, <1>7 DEF QueryFails, vars, local, tables
<1>8. CASE UNCHANGED queryVars
  BY <1>0, <1>8 DEF queryVars, queryLocal, vars, local, tables
<1>9. QED
  BY <1>1, <1>2, <1>3, <1>4, <1>5, <1>6, <1>7, <1>8 DEF QueryNext, Answer

-----------------------------------------------------------------------------
\* Every step of a report or a sync keeps the inductive invariant.
LEMMA InvStep == IInv /\ QueryInv /\ [QueryNext]_queryVars => (IInv /\ QueryInv)'
<1> SUFFICES ASSUME IInv, QueryInv, [QueryNext]_queryVars
             PROVE  (IInv /\ QueryInv)'
  OBVIOUS
<1>1. [Next]_vars
  BY DEF QueryNext, queryVars, GetReport, Answer, Reads, ReadHoldings,
     ReadTransactions, GetWithCategories, GetByIDs, BuildAccountStateByCategory, QueryFails
<1>2. IInv'
  BY <1>1, IInvStep
<1>3. QED
  BY <1>2, TypeKept, RowsKept, LaterKept, AssetsKept DEF QueryInv

\* Every reachable state satisfies the inductive invariant.
THEOREM QueryInvariance == QuerySpec => [](IInv /\ QueryInv)
<1>1. QueryInit => IInv /\ QueryInv
  BY InitInv
<1>2. QED
  BY <1>1, InvStep, PTL DEF QuerySpec

\* What a report has read keeps its types.
THEOREM QueryTypeCorrect == QuerySpec => []QueryTypeOK
<1>1. IInv /\ QueryInv => QueryTypeOK
  BY DEF QueryInv
<1>2. QED
  BY QueryInvariance, <1>1, PTL

\* The parts of a report disagree in one direction only, whatever syncs commit
\* between its queries: each covers what the ones before it did.
THEOREM LaterReadsAreLarger == QuerySpec => []LaterReadsSeeMore
<1>1. IInv /\ QueryInv => LaterReadsSeeMore
  BY DEF QueryInv, RowsInv, LaterInv, AssetsInv, LaterReadsSeeMore, AfterTotals,
     AfterDetails, Listed, Kinds
<1>2. QED
  BY QueryInvariance, <1>1, PTL

\* What is in a total is never listed under the default category.
THEOREM TotalsHaveCategories == QuerySpec => []DefaultCategoryIsNew
<1>1. IInv /\ QueryInv => DefaultCategoryIsNew
  <2> SUFFICES ASSUME IInv, QueryInv, at = "done", NEW p \in Listed,
                      p \in sums["total"] \/ p \in sums["category"]
               PROVE  CategoryIn(p.asset) # DefaultCategory
    BY DEF DefaultCategoryIsNew
  <2>1. p \in sums["total"] /\ p.asset \in named
    BY DEF QueryInv, LaterInv, AssetsInv, AfterTotals, AfterAssets
  <2>2. named \subseteq Assets
    BY DEF QueryInv, QueryTypeOK
  <2>3. QED
    BY <2>1, <2>2, SyncAssumption, QueryAssumption DEF CategoryIn
<1>2. QED
  BY QueryInvariance, <1>1, PTL

\* If no fetch loses data, a day in sync_logs when a report begins is whole in
\* every part of it.
THEOREM MarkedDaysAreReported ==
  ASSUME ~LossyFetch PROVE QuerySpec => []MarkedDaysReported
<1>1. IInv /\ QueryInv /\ MarkedInv /\ [QueryNext]_queryVars => MarkedInv'
  BY MarkedKept
<1>2. QueryInit => MarkedInv
  BY InitInv
<1>3. IInv /\ QueryInv /\ MarkedInv => MarkedDaysReported
  <2> SUFFICES ASSUME IInv, QueryInv, MarkedInv, at = "done", NEW p \in Positions,
                      <<p.client, p.day>> \in marked, InRange(p)
               PROVE  /\ p \in sums["category"] \cap sums["total"] \cap Listed
                      /\ CategoryIn(p.asset) = CategoryOf[p.asset]
    BY DEF MarkedDaysReported
  <2>1. p \in sums["category"] /\ p \in sums["total"] /\ p \in Listed
    BY DEF QueryInv, LaterInv, AssetsInv, MarkedInv, AfterCategories, AfterTotals,
       AfterDetails
  <2>2. p.asset \in named
    BY <2>1 DEF QueryInv, AssetsInv, AfterAssets
  <2>3. QED
    BY <2>1, <2>2 DEF CategoryIn
<1>4. QED
  BY QueryInvariance, <1>1, <1>2, <1>3, PTL DEF QuerySpec
=============================================================================
