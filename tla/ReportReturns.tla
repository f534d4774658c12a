---------------------------- MODULE ReportReturns ----------------------------
(***************************************************************************)
(* services/report_service.go: what a report says an account has earned.   *)
(*                                                                         *)
(* An asset's return over a day is the change of its value without its     *)
(* movements.  Daily returns are collapsed into the report's intervals,    *)
(* and the assets' returns are weighted into the returns of the whole      *)
(* portfolio.  A return is a record [from, to, rate]; the rate is the      *)
(* exact fraction of which the program keeps the percentage.  The interval *)
(* is a positive number of days: with 0 the program never gets through.    *)
(***************************************************************************)
EXTENDS AccountStates

Small(v) == ~AtMost(Whole(One), v) /\ ~AtMost(v, Whole(-One))

NoHolding == [value |-> 0, units |-> 0]

\* The last of the holdings that has the date.
HoldingOn(holdings, d) ==
  LET found == {i \in DOMAIN holdings : holdings[i].date = d}
  IN  IF found = {} THEN NoHolding ELSE holdings[Max(found)]

-----------------------------------------------------------------------------
\* A transaction without a value is worth its units at the price of the day's
\* end, and nothing when the day ends without the asset.
TransactionValue(t, ending) ==
  IF t.value # 0 \/ ending.units = 0 \/ t.units = 0 THEN Whole(t.value)
  ELSE Fraction(t.units * ending.value, ending.units)

\* The movements of the day that ends the return, taken off its end value.
NetEndValue(ending, transactions, d) ==
  FoldLeft(LAMBDA v, t : IF t.date = d THEN Minus(v, TransactionValue(t, ending)) ELSE v,
           Whole(ending.value), transactions)

\* Mutation: the movements of the day that starts the return are taken off.
DailyRateEarly(holdings, transactions, d) ==
  LET start == Whole(HoldingOn(holdings, d).value)
      end   == NetEndValue(HoldingOn(holdings, d + 1), transactions, d)
  IN  IF Small(start) \/ Small(end) THEN Zero ELSE Over(Minus(end, start), start)

\* A start or an end of less than a peso counts as no return.
DailyRate(holdings, transactions, d) ==
  LET start == Whole(HoldingOn(holdings, d).value)
      end   == NetEndValue(HoldingOn(holdings, d + 1), transactions, d + 1)
  IN  IF Small(start) \/ Small(end) THEN Zero ELSE Over(Minus(end, start), start)

\* Mutation: returns are added up.
CompoundSimply(compound, r) == Plus(compound, r.rate)

Compound(compound, r) == Times(compound, Plus(Unity, r.rate))

Within(r, to) == r.from < to

(***************************************************************************)
(* The daily returns, in order, into one return per interval.  The         *)
(* compound return runs on from interval to interval: the rate of an       *)
(* interval is the growth since the first.                                 *)
(***************************************************************************)
CloseInterval(acc) == Append(acc.closed, [from |-> acc.from, to |-> acc.to,
                                          rate |-> Minus(acc.compound, Unity)])

AddReturn(acc, r, interval) ==
  IF Within(r, acc.to) THEN [acc EXCEPT !.compound = Compound(@, r)]
  ELSE [closed |-> CloseInterval(acc), from |-> acc.to, to |-> acc.to + interval,
        compound |-> Compound(acc.compound, r)]

FirstInterval(r, interval) ==
  [closed |-> <<>>, from |-> r.from, to |-> r.from + interval, compound |-> Unity]

CollapseReturnsByInterval(daily, interval) ==
  IF daily = <<>> THEN <<>>
  ELSE CloseInterval(FoldLeft(LAMBDA acc, r : AddReturn(acc, r, interval),
                              FirstInterval(daily[1], interval), daily))

\* One return per day from the first holding to the day after the last one.
CalculateHoldingsReturn(holdings, transactions, interval) ==
  LET first == Head(holdings).date
      daily == [i \in 1 .. Last(holdings).date - first + 1 |->
                 [from |-> first + i - 1, to |-> first + i,
                  rate |-> DailyRate(holdings, transactions, first + i - 1)]]
  IN  CollapseReturnsByInterval(daily, interval)

\* With fewer than two holdings the error is dropped, and a return without a
\* name or a category takes the asset's place.
CalculateAssetReturn(asset, interval) ==
  IF Len(asset.holdings) < 2
  THEN [id |-> "", category |-> "", returns |-> <<>>]
  ELSE [id |-> asset.id, category |-> asset.category,
        returns |-> CalculateHoldingsReturn(asset.holdings, asset.transactions, interval)]

(***************************************************************************)
(* A category's return on a date: that of the last of its assets that has  *)
(* one, times the weight of the first that has a holding.                  *)
(***************************************************************************)
CalculateCategoryReturn(assets, assetReturns, categoryHoldings, k) ==
  LET all == FlattenSeq([i \in DOMAIN assetReturns |-> assetReturns[i].returns])
      held == FlattenSeq([i \in DOMAIN assets |->
                Select(assets[i].holdings, LAMBDA h : /\ h.value # 0
                                                         /\ HoldingOn(categoryHoldings, h.date).value # 0)])
      ending(d) == Select(all, LAMBDA r : r.to = d)
      weight(d) == Fraction(Head(Dated(held, d)).value, HoldingOn(categoryHoldings, d).value)
  IN  [id |-> k, category |-> k,
       returns |-> {[from |-> Last(ending(d)).from, to |-> d,
                     rate |-> Times(Last(ending(d)).rate, weight(d))] :
                    d \in {d \in Dates(held) : ending(d) # <<>>}}]

-----------------------------------------------------------------------------
\* Mutation: only the dates before are looked at.
getAssetValueBefore(asset, d) ==
  LET before == Select(asset.holdings, LAMBDA h : h.date < d) IN
  IF before = <<>> THEN 0 ELSE Last(before).value

\* The value on the date, or else on the closest date before it.
getAssetValueAtDate(asset, d) ==
  LET upTo == Select(asset.holdings, LAMBDA h : h.date <= d) IN
  IF upTo = <<>> THEN 0
  ELSE (CHOOSE h \in ToSet(upTo) : \A g \in ToSet(upTo) : g.date <= h.date).value

\* Mutation: the sum of the weighted returns is not divided by the weights.
WeightedTotalUnscaled(weighted, weight) == weighted

WeightedTotal(weighted, weight) ==
  IF AtMost(weight, Zero) THEN weighted ELSE Over(weighted, weight)

\* Entries of one id share the asset that comes last.
assetByID(assets, id) == Last(Select(assets, LAMBDA e : e.id = id))

\* The asset's share of the portfolio at the start of a return.
assetWeight(p, assets, totalHoldings) ==
  LET d == p.return.from
      total == IF d \in DOMAIN totalHoldings THEN totalHoldings[d] ELSE 0
  IN  IF total <= 0 THEN Zero
      ELSE Fraction(getAssetValueAtDate(assetByID(assets, p.id), d), total)

returnPeriods(assetReturns, assets) ==
  LET known == Select(assetReturns, LAMBDA e : \E i \in DOMAIN assets : assets[i].id = e.id)
  IN  FlattenSeq([i \in DOMAIN known |->
        [j \in DOMAIN known[i].returns |-> [id |-> known[i].id, return |-> known[i].returns[j]]]])

SumOf(fractions) == FoldLeft(Plus, Zero, fractions)

\* Returns that end on one date, weighted; the weights are scaled to sum to one.
finalReturn(ending, assets, totalHoldings) ==
  LET weight(i) == assetWeight(ending[i], assets, totalHoldings)
  IN  WeightedTotal(SumOf([i \in DOMAIN ending |-> Times(ending[i].return.rate, weight(i))]),
                    SumOf([i \in DOMAIN ending |-> weight(i)]))

CalculateWeightedTotalReturns(assetReturns, assets, totalHoldings, interval) ==
  LET periods == returnPeriods(assetReturns, assets)
      ends == InOrder({periods[i].return.to : i \in DOMAIN periods})
      ending(d) == Select(periods, LAMBDA p : p.return.to = d)
  IN  [i \in DOMAIN ends |-> [from |-> ends[i] - interval, to |-> ends[i],
                              rate |-> finalReturn(ending(ends[i]), assets, totalHoldings)]]

CalculateFinalIntervalReturn(totalReturns) ==
  FoldLeft(LAMBDA g, r : Times(g, Plus(Unity, r.rate)), Unity, totalReturns)

-----------------------------------------------------------------------------
Grid(from, to, interval) == {d \in from .. to : (d - from) % interval = 0}

FilterHoldingsByInterval(holdings, grid) ==
  Select(holdings, LAMBDA h : h.date \in grid)

\* Mutation: an asset whose first holding is off the grid is left out.
FilterAssetsByFirst(assets, grid) ==
  LET kept == Select(assets, LAMBDA e : e.holdings # <<>> /\ Head(e.holdings).date \in grid)
  IN  [i \in DOMAIN kept |->
        [kept[i] EXCEPT !.holdings = FilterHoldingsByInterval(@, grid)]]

\* Assets without a holding on the grid are left out; what is computed for the
\* category assets is thrown away.
FilterAssets(assets, grid) ==
  LET kept == Select(assets, LAMBDA e : Dates(e.holdings) \cap grid # {})
  IN  [i \in DOMAIN kept |->
        [kept[i] EXCEPT !.holdings = FilterHoldingsByInterval(@, grid)]]

\* The items of a map of sequences, key by key.
Flat(f) == LET ks == SetToSeq(DOMAIN f) IN FlattenSeq([i \in DOMAIN ks |-> f[ks[i]]])

\* Pesos themselves earn no return, but keep their place among the holdings.
Earning(categories) == categories \ {"ARS"}

GenerateReport(state, from, to, interval) ==
  LET grid == Grid(from, to, interval)
      assets == state.assetsByCategory
      returns == [k \in Earning(DOMAIN assets) |->
                   [i \in DOMAIN assets[k] |-> CalculateAssetReturn(assets[k][i], interval)]]
      of(f, k) == IF k \in DOMAIN f THEN f[k] ELSE <<>>
      filtered == [k \in DOMAIN assets |-> FilterAssets(assets[k], grid)]
      totals == CalculateWeightedTotalReturns(Flat(returns), Flat(assets),
                                              state.totalHoldings, interval)
  IN  [assetsByCategory |-> Restrict(filtered, {k \in DOMAIN assets : filtered[k] # <<>>}),
       assetsReturnByCategory |-> returns,
       categoryAssets |-> state.categoryAssets,
       categoryAssetsReturn |->
         [k \in Earning(DOMAIN state.categoryAssets) |->
           CalculateCategoryReturn(of(assets, k), of(returns, k),
                                   state.categoryAssets[k].holdings, k)],
       totalHoldings |-> Restrict(state.totalHoldings, DOMAIN state.totalHoldings \cap grid),
       totalReturns |-> totals,
       finalIntervalReturn |-> CalculateFinalIntervalReturn(totals)]
=============================================================================
