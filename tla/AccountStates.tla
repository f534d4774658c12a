---------------------------- MODULE AccountStates ----------------------------
(***************************************************************************)
(* The data of an account on its way from the broker to a report.          *)
(*                                                                         *)
(* The broker answers, per account and day, with rows of holdings, and per *)
(* account and range with rows of its ledger.  ESCOService parses both     *)
(* into an account state: per asset, its holdings and its transactions.    *)
(* From there the code has two ways to the state by category a report is   *)
(* made of: through the tables, which a sync fills and AccountService      *)
(* reads back, and directly, by ESCOService's collapsing and grouping.     *)
(*                                                                         *)
(* Days are integers.  Amounts are integers in fractions of a peso, One to *)
(* the peso.  A holding or a transaction is a record of a date, a value    *)
(* and units; a map keyed by dates or names is a function.                 *)
(***************************************************************************)
EXTENDS Integers, FiniteSetsExt, SequencesExt, Functions, Fractions

CONSTANTS
  Clients,     \* account ids
  AssetIds,    \* external ids of assets: a sequence, in the order of the ids
  CategoryOf,  \* the category the broker client's category map gives an asset
  One          \* the amount that is one peso

ASSUME AccountAssumption ==
  /\ One \in Nat \ {0}
  /\ AssetIds \in Seq(ToSet(AssetIds))
  /\ ToSet(AssetIds) \subseteq DOMAIN CategoryOf

\* Rows of the broker's answers and of its ledger.
AnswerRow == [asset : ToSet(AssetIds), value : Int, units : Int]
LedgerRow == [kind : STRING, asset : ToSet(AssetIds), day : Int, value : Int, units : Int]

\* The members of a finite set of integers, in their order.
InOrder(set) ==
  [i \in 1 .. Cardinality(set) |->
    CHOOSE x \in set : Cardinality({y \in set : y < x}) = i - 1]

\* The items at some places, and those that pass a test, in their order.
ItemsAt(items, places) ==
  LET kept == InOrder(places) IN [j \in DOMAIN kept |-> items[kept[j]]]
Select(items, Test(_)) == ItemsAt(items, {i \in DOMAIN items : Test(items[i])})

Values(items) == FoldLeft(LAMBDA sum, i : sum + i.value, 0, items)
Units(items)  == FoldLeft(LAMBDA sum, i : sum + i.units, 0, items)

Dated(items, d) == Select(items, LAMBDA i : i.date = d)
Dates(items)    == {items[i].date : i \in DOMAIN items}

-----------------------------------------------------------------------------
(***************************************************************************)
(* Parsing the broker's answers.                                           *)
(***************************************************************************)
\* One day's rows [asset, value, units].  An asset in several lots has as many
\* holdings on that day, in the order of the rows.
parseEstadoToAccountState(rows, day) ==
  [a \in {rows[i].asset : i \in DOMAIN rows} |->
    LET lots == Select(rows, LAMBDA r : r.asset = a) IN
    [id |-> a, category |-> CategoryOf[a], transactions |-> <<>>,
     holdings |-> [i \in DOMAIN lots |->
                    [date |-> day, value |-> lots[i].value, units |-> lots[i].units]]]]

(***************************************************************************)
(* The ledger rows [kind, asset, day, value, units] that are movements of  *)
(* an asset: withdrawals, coupons, trades, subscriptions and redemptions,  *)
(* and interest on dollars.  The rest of the ledger is dropped.            *)
(***************************************************************************)
IsMovement(row) ==
  \/ row.kind = "Retiro de Títulos" /\ row.units < 0
  \/ row.kind = "Boleto"
  \/ /\ row.kind \in {"Renta", "Liquidación de Suscripción", "Liquidación de Rescate"}
     /\ row.asset # "$"
  \/ row.kind = "Interest payment" /\ row.asset = "USD"

\* Interest is entered as so many units, without a value.
parseInstrumentosRecoveries(ledger, a) ==
  LET mine == Select(ledger, LAMBDA r : IsMovement(r) /\ r.asset = a) IN
  [i \in DOMAIN mine |->
    IF mine[i].kind = "Interest payment"
    THEN [date |-> mine[i].day, value |-> 0, units |-> mine[i].value]
    ELSE [date |-> mine[i].day, value |-> mine[i].value, units |-> mine[i].units]]

\* GetAccountStateWithTransactions, when no call fails: the days' states
\* appended asset by asset, then the movements of the assets among them.
GetAccountState(answers, ledger) ==
  LET days == InOrder(DOMAIN answers)
      state(d) == parseEstadoToAccountState(answers[d], d)
      held == UNION {DOMAIN state(d) : d \in DOMAIN answers}
      lots(a) == FlattenSeq([i \in DOMAIN days |->
                   IF a \in DOMAIN state(days[i]) THEN state(days[i])[a].holdings ELSE <<>>])
  IN  [a \in held |->
        [id |-> a, category |-> CategoryOf[a], holdings |-> lots(a),
         transactions |-> parseInstrumentosRecoveries(ledger, a)]]

-----------------------------------------------------------------------------
(***************************************************************************)
(* Through the tables.  A sync inserts holdings with an upsert, so that    *)
(* the last lot of a day stays, and inserts transactions with their units  *)
(* but without their value.                                                *)
(***************************************************************************)
storeHoldings(c, asset) ==
  {[client |-> c, asset |-> asset.id, date |-> d,
    value |-> Last(Dated(asset.holdings, d)).value,
    units |-> Last(Dated(asset.holdings, d)).units] : d \in Dates(asset.holdings)}

storeTransactions(c, asset) ==
  {[client |-> c, asset |-> asset.id, row |-> i, date |-> asset.transactions[i].date,
    value |-> 0, units |-> asset.transactions[i].units] : i \in DOMAIN asset.transactions}

\* The tables after every day of the states was synced once; assets maps the
\* external id of each stored asset to the name of its category.
StoreAccountStates(states) ==
  LET stored == {ca \in Clients \X ToSet(AssetIds) : ca[2] \in DOMAIN states[ca[1]]} IN
  [holdings     |-> UNION {storeHoldings(ca[1], states[ca[1]][ca[2]]) : ca \in stored},
   transactions |-> UNION {storeTransactions(ca[1], states[ca[1]][ca[2]]) : ca \in stored},
   assets       |-> [a \in {ca[2] : ca \in stored} |-> CategoryOf[a]]]

\* Mutation: the end of the range is excluded, as it is in a sync.
GetBeforeEnd(rows, clients, from, to) ==
  {r \in rows : r.client \in clients /\ from <= r.date /\ r.date < to}

\* The queries of a report; the range of dates is inclusive.
GetByClientIDs(rows, clients, from, to) ==
  {r \in rows : r.client \in clients /\ from <= r.date /\ r.date <= to}

GetTotalByDate(rows) ==
  [d \in {r.date : r \in rows} |->
    MapThenSumSet(LAMBDA r : r.value, {r \in rows : r.date = d})]

GetGroupedByCategoryAndDate(rows, assets) ==
  [k \in {assets[r.asset] : r \in rows} |->
    GetTotalByDate({r \in rows : assets[r.asset] = k})]

\* How the sort leaves rows of one date is not determined.
SortedByDate(rows) ==
  LET days == InOrder({r.date : r \in rows})
  IN  FlattenSeq([i \in DOMAIN days |-> SetToSeq({r \in rows : r.date = days[i]})])

buildAccountState(holdings, transactions) ==
  [a \in {r.asset : r \in holdings \cup transactions} |->
    LET of(rows) == {r \in rows : r.asset = a}
    IN  [id |-> a, holdings |-> SortedByDate(of(holdings)),
         transactions |-> SortedByDate(of(transactions))]]

\* A category as an asset: its totals by date are its holdings.
CategoryAsset(k, holdings) ==
  [id |-> k, category |-> k,
   holdings |-> LET days == InOrder(DOMAIN holdings)
                IN  [i \in DOMAIN days |-> [date |-> days[i], value |-> holdings[days[i]]]]]

(***************************************************************************)
(* order is a sequence of the clients: assets are sorted by their id, and  *)
(* how the sort leaves the entries that two clients have of one asset is   *)
(* not determined.  A category that was only traded has no holdings.       *)
(***************************************************************************)
buildAccountStateByCategory(states, order, assets, categoryHoldings, categoryTransactions, totals) ==
  LET category(a) == IF a \in DOMAIN assets THEN assets[a] ELSE "S / C"
      entries(a)  == LET cs == Select(order, LAMBDA c : a \in DOMAIN states[c])
                     IN  [i \in DOMAIN cs |-> [id |-> a, category |-> category(a),
                           holdings |-> states[cs[i]][a].holdings,
                           transactions |-> states[cs[i]][a].transactions]]
      all == FlattenSeq([i \in DOMAIN AssetIds |-> entries(AssetIds[i])])
  IN  [assetsByCategory |-> [k \in {all[i].category : i \in DOMAIN all} |->
                              Select(all, LAMBDA e : e.category = k)],
       categoryAssets   |-> [k \in DOMAIN categoryHoldings \cup DOMAIN categoryTransactions |->
                              CategoryAsset(k, IF k \in DOMAIN categoryHoldings
                                               THEN categoryHoldings[k] ELSE <<>>)],
       totalHoldings    |-> totals]

GetMultiAccountStateByCategory(tables, order, from, to) ==
  LET clients == ToSet(order)
      holdings     == GetByClientIDs(tables.holdings, clients, from, to)
      transactions == GetByClientIDs(tables.transactions, clients, from, to)
      own(rows, c) == {r \in rows : r.client = c}
      states == [c \in clients |-> buildAccountState(own(holdings, c), own(transactions, c))]
  IN  buildAccountStateByCategory(states, order, tables.assets,
        GetGroupedByCategoryAndDate(holdings, tables.assets),
        GetGroupedByCategoryAndDate(transactions, tables.assets), GetTotalByDate(holdings))

-----------------------------------------------------------------------------
(***************************************************************************)
(* Directly.  collapseAccountStates makes one state of several: per asset  *)
(* and day the values of all lots are added up, but the units are those of *)
(* the first.  For transactions both are added up.  The order of the       *)
(* states is the order of the request's ids.                               *)
(***************************************************************************)
collapseAccountStates(states) ==
  LET ids == UNION {DOMAIN states[i] : i \in DOMAIN states}
      all(a, field) == FlattenSeq([i \in DOMAIN states |->
                         IF a \in DOMAIN states[i] THEN states[i][a][field] ELSE <<>>])
      perDay(items, units(_)) ==
        LET days == InOrder(Dates(items)) IN
        [i \in DOMAIN days |-> [date |-> days[i], value |-> Values(Dated(items, days[i])),
                                units |-> units(Dated(items, days[i]))]]
  IN  [a \in ids |-> [id |-> a, category |-> CategoryOf[a],
        holdings     |-> perDay(all(a, "holdings"), LAMBDA lots : Head(lots).units),
        transactions |-> perDay(all(a, "transactions"), Units)]]

\* The value of a transaction entered by its units: at the price of its day.
TransactionWorth(asset, t) ==
  LET today == Dated(asset.holdings, t.date) IN
  IF t.value # 0 \/ t.units = 0 \/ today = <<>> \/ Head(today).units = 0
  THEN Whole(t.value)
  ELSE Fraction(t.units * Head(today).value, Head(today).units)

groupTotalHoldingsAndTransactionsByDate(state) ==
  LET ids    == Select(AssetIds, LAMBDA a : a \in DOMAIN state)
      assets == [i \in DOMAIN ids |-> state[ids[i]]]
      of(k)  == {a \in DOMAIN state : state[a].category = k}
      total(as) == [d \in UNION {Dates(state[a].holdings) : a \in as} |->
                     MapThenSumSet(LAMBDA a : Values(Dated(state[a].holdings, d)), as)]
      moved(as) == [d \in UNION {Dates(state[a].transactions) : a \in as} |->
                     FoldSet(LAMBDA a, sum :
                               FoldLeft(LAMBDA s, t : Plus(s, TransactionWorth(state[a], t)),
                                        sum, Dated(state[a].transactions, d)), Zero, as)]
      categories == {state[a].category : a \in DOMAIN state}
  IN  [assetsByCategory |-> [k \in categories |->
                              Select(assets, LAMBDA e : e.category = k)],
       categoryAssets   |-> [k \in categories |-> CategoryAsset(k, total(of(k)))],
       totalHoldings    |-> total(DOMAIN state),
       totalTransactions |-> moved(DOMAIN state)]

CollapseAndGroupAccountsStates(states) ==
  groupTotalHoldingsAndTransactionsByDate(collapseAccountStates(states))
=============================================================================
