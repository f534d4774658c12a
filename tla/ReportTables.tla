---------------------------- MODULE ReportTables -----------------------------
(***************************************************************************)
(* From a report to the tables and charts of its file: the dataframes of   *)
(* services/report_service.go, their union in utils/dataframes.go, and the *)
(* series services/report_parser_service.go picks from them.               *)
(*                                                                         *)
(* A dataframe maps the names of its columns to columns, and a column maps *)
(* dates to cells.  A date a column does not map is an empty cell.  Cells  *)
(* hold text with two decimals: the number of hundredths stands for it.    *)
(* A name is a pair, "<category>-<id>", or a single word.                  *)
(***************************************************************************)
EXTENDS ReportReturns

Word(w) == <<w>>
TOTAL == Word("TOTAL")

\* All of f, and of g what f has nothing for; a table of one column.
Merged(f, g) == [x \in DOMAIN f \cup DOMAIN g |-> IF x \in DOMAIN f THEN f[x] ELSE g[x]]
Named(name, column) == [n \in {name} |-> column]

\* Days of a interval text [weeks, colon, days]: digits, as a
\* sequence, before the w and before the d.  The first character of the part
\* in days is taken for the colon, and dropped, whether or not it is one.
Number(digits) == FoldLeft(LAMBDA n, c : 10 * n + c, 0, digits)

\* Mutation: the last digit goes with the d, too.
ParseTimeIntervalShort(text) ==
  7 * Number(text.weeks) + Number(IF text.days = <<>> THEN <<>> ELSE Front(text.days))

ParseTimeInterval(text) ==
  7 * Number(text.weeks)
    + Number(IF text.colon \/ text.days = <<>> THEN text.days ELSE Tail(text.days))

\* Without dates when the end is before the start: an error for every caller.
GenerateDates(from, to, interval) == Grid(from, to, interval)

-----------------------------------------------------------------------------
\* The columns of a list of entries; of two columns of one name the later stays.
Columns(entries, column(_)) ==
  LET name(e) == <<e.category, e.id>> IN
  [n \in {name(entries[i]) : i \in DOMAIN entries} |->
    column(Last(Select(entries, LAMBDA e : name(e) = n)))]

\* Values of less than a peso are shown as nothing.
Shown(v) == IF v < One /\ v > -One THEN 0 ELSE Hundredths(Fraction(v, One))

HoldingColumn(holdings, dates) ==
  [d \in dates |-> Shown(HoldingOn(holdings, d).value)]

\* The total is also shown as nothing when it is negative.
TotalColumn(totalHoldings, dates) ==
  [d \in dates |-> IF d \in DOMAIN totalHoldings /\ totalHoldings[d] >= One
                   THEN Shown(totalHoldings[d]) ELSE 0]

parseAccountsReportToDataFrame(report, dates) ==
  Merged(Columns(Flat(report.assetsByCategory), LAMBDA e : HoldingColumn(e.holdings, dates)),
         Named(TOTAL, TotalColumn(report.totalHoldings, dates)))

parseAccountsCategoryToDataFrame(report, dates) ==
  LET asset == report.categoryAssets IN
  [n \in {Word(k) : k \in DOMAIN asset} |-> HoldingColumn(asset[n[1]].holdings, dates)]

Percentage(rate) == Hundredths(Times(rate, Whole(100)))

\* Mutation: a return is entered at the date it starts.
ReturnColumnAtStart(returns, dates) ==
  [d \in {returns[i].from : i \in DOMAIN returns} \cap dates |->
    Percentage(Last(Select(returns, LAMBDA r : r.from = d)).rate)]

\* The last of the returns that ends on each date.
ReturnColumn(returns, dates) ==
  [d \in {returns[i].to : i \in DOMAIN returns} \cap dates |->
    Percentage(Last(Select(returns, LAMBDA r : r.to = d)).rate)]

\* Dates without a return get 0.0 in an asset's column, and nothing in the
\* total, whose column is there only if there are returns.
parseAccountsReturnToDataFrame(report, dates) ==
  Merged(Columns(Flat(report.assetsReturnByCategory),
                 LAMBDA e : Merged(ReturnColumn(e.returns, dates), [d \in dates |-> 0])),
         IF report.totalReturns = <<>> THEN <<>>
         ELSE Named(TOTAL, ReturnColumn(report.totalReturns, dates)))

parseReferenceVariablesToDataFrame(variables, dates) ==
  [n \in {Word(v) : v \in DOMAIN variables} |->
    [d \in dates |-> IF d \in DOMAIN variables[n[1]] THEN variables[n[1]][d] ELSE 0]]

Share(cell, total) == IF total = 0 THEN 0 ELSE Hundredths(Fraction(100 * cell, total))

divideByTotal(frame) ==
  IF TOTAL \notin DOMAIN frame THEN frame
  ELSE [n \in DOMAIN frame |->
         IF n = TOTAL THEN frame[n]
         ELSE [d \in DOMAIN frame[n] |-> Share(frame[n][d], frame[TOTAL][d])]]

GenerateReportDataframes(report, variables, dates) ==
  LET holdings   == parseAccountsReportToDataFrame(report, dates)
      categories == parseAccountsCategoryToDataFrame(report, dates)
  IN  [ReportDF             |-> holdings,
       ReportPercentageDf   |-> divideByTotal(holdings),
       ReturnDF             |-> parseAccountsReturnToDataFrame(report, dates),
       ReferenceVariablesDF |-> parseReferenceVariablesToDataFrame(variables, dates),
       CategoryDF           |-> categories,
       CategoryPercentageDF |-> divideByTotal(categories)]

-----------------------------------------------------------------------------
\* All columns and rows of both; cells of the second fill or replace the first's.
UnionDataFramesByIndex(df1, df2) ==
  LET cells(df, n) == IF n \in DOMAIN df THEN df[n] ELSE <<>>
  IN  [n \in DOMAIN df1 \cup DOMAIN df2 |-> Merged(cells(df2, n), cells(df1, n))]

\* The columns a chart shows.
Series(frame, include, exclude) ==
  Restrict(frame, {n \in DOMAIN frame : (include = {} \/ n \in include) /\ n \notin exclude})

ReturnSeries == {TOTAL, Word("Inflacion Mensual"), Word("USD A3500 Variacion")}

\* The pie has a slice for each positive share of the last day.
Pie(frame, dates) ==
  LET last == Max(dates)
      shares == Series(frame, {}, {TOTAL})
  IN  [n \in {n \in DOMAIN shares : shares[n][last] > 0} |-> shares[n][last]]

\* A bar shows shares that are not positive as nothing.
Bars(frame) ==
  LET shares == Series(frame, {}, {TOTAL}) IN
  [n \in DOMAIN shares |->
    [d \in DOMAIN shares[n] |-> IF shares[n][d] > 0 THEN shares[n][d] ELSE 0]]

ParseAccountsReportToPDF(frames, dates) ==
  [returns    |-> Series(UnionDataFramesByIndex(frames.ReturnDF, frames.ReferenceVariablesDF),
                         ReturnSeries, {}),
   categories |-> Series(frames.CategoryDF, {}, {TOTAL}),
   pie        |-> Pie(frames.ReportPercentageDf, dates),
   bars       |-> Bars(frames.ReportPercentageDf),
   total      |-> Series(frames.ReportDF, {TOTAL}, {})]
=============================================================================
