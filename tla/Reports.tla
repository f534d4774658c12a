------------------------------- MODULE Reports -------------------------------
(***************************************************************************)
(* GET /reports: a report of some accounts over a range of days.           *)
(*                                                                         *)
(* The accounts' broker data was synced into the tables beforehand.  The   *)
(* handler parses the interval, the controller reads the accounts back     *)
(* grouped by category and computes the report, and for a file the report  *)
(* becomes dataframes and then charts.  Each stage is a function of the    *)
(* one before, in the modules this one extends; here they are put in       *)
(* order, with the errors and the loop that end a request early.           *)
(***************************************************************************)
EXTENDS ReportTables

CONSTANTS
  Books,      \* what the broker has: per client, answers by day and a ledger
  Queries,    \* the query parameters: ids, from, to, interval
  Variables,  \* the reference variables of the report, by name and day
  Longest     \* the days the longest time.Duration holds: 106751 in the program

\* The digits of an interval, before its w and before its d.
IntervalText == [weeks : Seq(0 .. 9), colon : BOOLEAN, days : Seq(0 .. 9)]

ASSUME BooksAssumption ==
  \A b \in Books : \A c \in Clients :
    /\ b[c].ledger \in Seq(LedgerRow)
    /\ IsFiniteSet(DOMAIN b[c].answers) /\ DOMAIN b[c].answers \subseteq Int
    /\ \A d \in DOMAIN b[c].answers : b[c].answers[d] \in Seq(AnswerRow)

\* From 2 * Longest days on a duration is positive again, but of other days.
ASSUME QueriesAssumption ==
  /\ Longest \in Nat \ {0}
  /\ \A q \in Queries : /\ q.ids \subseteq Clients /\ IsFiniteSet(q.ids)
                        /\ q.interval \in IntervalText
                        /\ ParseTimeInterval(q.interval) <= 2 * Longest
                        /\ q.from \in Int /\ q.to \in Int

VARIABLES
  books,      \* the broker's data of this behaviour
  query,      \* the request's parameters
  stage,      \* how far the request is
  state,      \* accountStateByCategory
  report,     \* accountsReport
  frames,     \* dataframes
  charts      \* what the file shows

vars == <<books, query, stage, state, report, frames, charts>>

Interval == ParseTimeInterval(query.interval)
Backward == Interval > Longest
Endless  == (Interval = 0 \/ Backward) /\ query.from <= query.to
GridDays == GenerateDates(query.from, query.to, Interval)

StatesOf(b) == [c \in Clients |-> GetAccountState(b[c].answers, b[c].ledger)]

Init ==
  /\ books \in Books
  /\ query \in Queries
  /\ stage = "asked"
  /\ state = <<>> /\ report = <<>> /\ frames = <<>> /\ charts = <<>>

\* The tables hold what syncs of all days stored; the order of the entries two
\* accounts have of one asset is not determined.
ReadAccounts ==
  /\ stage = "asked"
  /\ \E order \in SetToSeqs(query.ids) :
       state' = GetMultiAccountStateByCategory(StoreAccountStates(StatesOf(books)),
                                               order, query.from, query.to)
  /\ stage' = "read"
  /\ UNCHANGED <<books, query, report, frames, charts>>

\* The loop over the interval's dates never gets past the first when the interval
\* is of no days, and goes back in time when its nanoseconds overflow an int64.
\* No timeout interrupts it.
LoopForever ==
  /\ stage = "read" /\ Endless
  /\ stage' = "looping"
  /\ UNCHANGED <<books, query, state, report, frames, charts>>

GetReport ==
  /\ stage = "read" /\ ~Endless
  /\ report' = GenerateReport(state, query.from, query.to, Interval)
  /\ stage' = "reported"
  /\ UNCHANGED <<books, query, state, frames, charts>>

\* A range that ends before it starts is found out only here.
RangeRefused ==
  /\ stage = "reported" /\ query.to < query.from
  /\ stage' = "error"
  /\ UNCHANGED <<books, query, state, report, frames, charts>>

GenerateDataframes ==
  /\ stage = "reported" /\ query.from <= query.to
  /\ frames' = GenerateReportDataframes(report, Variables, GridDays)
  /\ stage' = "framed"
  /\ UNCHANGED <<books, query, state, report, charts>>

GenerateFile ==
  /\ stage = "framed"
  /\ charts' = ParseAccountsReportToPDF(frames, GridDays)
  /\ stage' = "done"
  /\ UNCHANGED <<books, query, state, report, frames>>

Ended == stage \in {"done", "error", "looping"} /\ UNCHANGED vars

Next == \/ ReadAccounts \/ LoopForever \/ GetReport \/ RangeRefused
        \/ GenerateDataframes \/ GenerateFile \/ Ended

Spec == Init /\ [][Next]_vars

-----------------------------------------------------------------------------
(***************************************************************************)
(* Properties.                                                             *)
(***************************************************************************)
HasReport == stage \in {"reported", "framed", "done", "error"}

Entries == Flat(state.assetsByCategory)

\* The returns of an entry, which has its entry's place in the report.
ReturnsOf(k, i) == report.assetsReturnByCategory[k][i].returns

\* The entries that earn returns, as pairs of a category and a place.
Places == UNION {{k} \X DOMAIN state.assetsByCategory[k] :
                 k \in Earning(DOMAIN state.assetsByCategory)}
EntryAt(p) == state.assetsByCategory[p[1]][p[2]]

First(e)  == Head(e.holdings).date
Latest(e) == Last(e.holdings).date

Identified(e) == e.id # ""

\* Held on every day from its first to its last, by at least a peso.
Steady(e) == /\ Len(e.holdings) >= 2
             /\ Latest(e) - First(e) + 1 = Len(e.holdings)
             /\ \A i \in DOMAIN e.holdings : e.holdings[i].value >= One

\* As many units on every day, and nothing in the ledger.
Untraded(e) == /\ e.transactions = <<>>
               /\ \A i \in DOMAIN e.holdings : e.holdings[i].units = Head(e.holdings).units

OneEntryEach == \A i, j \in DOMAIN Entries : Entries[i].id = Entries[j].id => i = j

UnitsMoved(transactions, d) ==
  FoldLeft(LAMBDA sum, t : IF t.date = d THEN sum + t.units ELSE sum, 0, transactions)

\* Every change of the units held is in the ledger, and the price never moves.
TradedAtOnePrice(e) ==
  LET at(i) == e.holdings[i] IN
  \A i \in 2 .. Len(e.holdings) :
    /\ at(i).units > 0 /\ at(1).units > 0
    /\ at(i).value * at(1).units = at(1).value * at(i).units
    /\ at(i).units = at(i - 1).units + UnitsMoved(e.transactions, at(i).date)

(***************************************************************************)
(* Buying and selling is not earning: an asset whose price stays the same  *)
(* has no return in any interval, whatever was moved in and out, and       *)
(* although the table of transactions has lost their values.               *)
(***************************************************************************)
MovementsAreNotReturns ==
  HasReport => \A p \in Places :
    (Steady(EntryAt(p)) /\ TradedAtOnePrice(EntryAt(p))) =>
      \A j \in DOMAIN ReturnsOf(p[1], p[2]) : ReturnsOf(p[1], p[2])[j].rate = Zero

(***************************************************************************)
(* The return of an untraded asset in an interval is its growth from its   *)
(* first day to the interval's end, however the days fall into intervals;  *)
(* the day after the last holding adds nothing.                            *)
(***************************************************************************)
CumulativeGrowth ==
  HasReport => \A p \in Places :
    LET e == EntryAt(p) IN
    (Steady(e) /\ Untraded(e)) =>
      \A j \in DOMAIN ReturnsOf(p[1], p[2]) :
        LET r == ReturnsOf(p[1], p[2])[j]
            end == IF r.to <= Latest(e) THEN r.to ELSE Latest(e)
        IN  Plus(Unity, r.rate) = Fraction(HoldingOn(e.holdings, end).value, Head(e.holdings).value)

Tile(rs, first, last, interval) ==
  /\ rs[1].from = first
  /\ \A j \in DOMAIN rs : rs[j].to = rs[j].from + interval
  /\ \A j \in 2 .. Len(rs) : rs[j].from = rs[j - 1].to
  /\ last \in Last(rs).from .. Last(rs).to - 1

(***************************************************************************)
(* The intervals of an asset's returns follow one another without gap or   *)
(* overlap from its first day on, and the last one contains its last day.  *)
(***************************************************************************)
IntervalsTile ==
  HasReport => \A p \in Places :
    LET rs == ReturnsOf(p[1], p[2]) IN
    rs # <<>> => Tile(rs, First(EntryAt(p)), Latest(EntryAt(p)), Interval)

(***************************************************************************)
(* The portfolio's return in an interval lies between the worst and the    *)
(* best of the assets' returns that end with it, although pesos take part  *)
(* in the portfolio and not in the returns; unless debts in pesos leave a  *)
(* portfolio of no value to weigh the assets with.                         *)
(***************************************************************************)
TotalWithinAssets ==
  (HasReport /\ OneEntryEach /\ \A p \in Places : Steady(EntryAt(p))) =>
    \A i \in DOMAIN report.totalReturns :
      LET total == report.totalReturns[i]
          ending(p) == {j \in DOMAIN ReturnsOf(p[1], p[2]) : ReturnsOf(p[1], p[2])[j].to = total.to}
          rates == UNION {{ReturnsOf(p[1], p[2])[j].rate : j \in ending(p)} : p \in Places}
      IN  state.totalHoldings[total.from] > 0 =>
            /\ \E r \in rates : AtMost(r, total.rate)
            /\ \E r \in rates : AtMost(total.rate, r)

\* The value of the entries that earn returns.
Portfolio(d) == MapThenSumSet(LAMBDA p : HoldingOn(EntryAt(p).holdings, d).value, Places)

\* Every earning asset is held, untraded, over the same days.
OnePortfolio ==
  /\ OneEntryEach /\ Places # {}
  /\ \A p \in Places : Steady(EntryAt(p)) /\ Untraded(EntryAt(p))
  /\ \A p, q \in Places : /\ First(EntryAt(p)) = First(EntryAt(q))
                          /\ Latest(EntryAt(p)) = Latest(EntryAt(q))

Until(r) == LET last == Latest(EntryAt(CHOOSE p \in Places : TRUE))
            IN  IF r.to <= last THEN r.to ELSE last

(***************************************************************************)
(* Weighting is right in the first interval: the return of an untraded     *)
(* portfolio there is the growth of its value; unless debts in pesos leave *)
(* no value to weigh the assets with.                                      *)
(***************************************************************************)
FirstTotalIsGrowth ==
  (HasReport /\ OnePortfolio) =>
    LET r == report.totalReturns[1] IN
    state.totalHoldings[r.from] > 0 =>
      Plus(Unity, r.rate) = Fraction(Portfolio(Until(r)), Portfolio(r.from))

(***************************************************************************)
(* What TestCalculateFinalIntervalReturn takes it to be: the growth over   *)
(* the whole report, here of an untraded portfolio.  The code multiplies   *)
(* interval returns that already are the growth since the first day.       *)
(***************************************************************************)
FinalReturnIsGrowth ==
  (HasReport /\ OnePortfolio) =>
    report.finalIntervalReturn =
      Fraction(Portfolio(Until(Last(report.totalReturns))), Portfolio(report.totalReturns[1].from))

(***************************************************************************)
(* An asset held from the first day of the report on has every return that *)
(* ends by the last day in the table, at the date the return ends.  Assets *)
(* without an id could share the column of those without enough holdings.  *)
(***************************************************************************)
ReturnsShownAtTheirEnd ==
  (stage \in {"framed", "done"} /\ OneEntryEach) =>
    \A p \in Places :
      LET rs == ReturnsOf(p[1], p[2]) IN
      (rs # <<>> /\ First(EntryAt(p)) = query.from /\ Identified(EntryAt(p))) =>
        \A j \in DOMAIN rs : rs[j].to <= query.to =>
          /\ rs[j].to \in GridDays
          /\ frames.ReturnDF[<<p[1], EntryAt(p).id>>][rs[j].to] = Percentage(rs[j].rate)

\* Something is held on the day, and all that is held is worth a peso or more, in
\* whole hundredths.
ShownExactly(d) ==
  LET values == {HoldingOn(Entries[i].holdings, d).value : i \in DOMAIN Entries} IN
  /\ \A v \in values : v = 0 \/ (v >= One /\ (100 * v) % One = 0)
  /\ values \ {0} # {}

\* Shares, in hundredths of a percent, whose sum is the whole but for half of one
\* for each of n.
NearWhole(shares, n) ==
  2 * (MapThenSumSet(LAMBDA x : shares[x], DOMAIN shares) - 10000) \in -n .. n

(***************************************************************************)
(* On a day on which each asset is worth a peso or more, in whole          *)
(* hundredths, or is not held, the shares of the assets, pesos included,   *)
(* add up to the whole, but for rounding each to two decimals; so do the   *)
(* slices of the pie.                                                      *)
(***************************************************************************)
SharesSumToWhole ==
  (stage = "done" /\ OneEntryEach) =>
    \A d \in GridDays : ShownExactly(d) =>
      LET frame == frames.ReportPercentageDf
          names == DOMAIN frame \ {TOTAL}
      IN  /\ NearWhole([n \in names |-> frame[n][d]], Cardinality(names))
          /\ d = Max(GridDays) => NearWhole(charts.pie, Cardinality(names))

\* Every entry has a sequence of holdings, one for each of some days of the range,
\* in their order, and transactions without their values; of whole amounts.
ReadInOrder ==
  \A k \in DOMAIN state.assetsByCategory : \A i \in DOMAIN state.assetsByCategory[k] :
    LET hs == EntryAt(<<k, i>>).holdings
        ts == EntryAt(<<k, i>>).transactions
    IN  /\ hs \in Seq(ToSet(hs)) /\ ts \in Seq(ToSet(ts))
        /\ \A h \in ToSet(hs) : h.date \in query.from .. query.to /\ h.value \in Int /\ h.units \in Int
        /\ \A j \in 2 .. Len(hs) : hs[j - 1].date < hs[j].date
        /\ \A t \in ToSet(ts) : t.date \in Int /\ t.value = 0 /\ t.units \in Int

(***************************************************************************)
(* The two ways to the state by category agree: the tables, read back over *)
(* a range, give each entry one holding a day, in order, and nothing       *)
(* outside the range; and they have the holdings that collapsing and       *)
(* grouping the broker's answers for those days gives, for assets held in  *)
(* one lot; categories that were only traded are left aside.               *)
(***************************************************************************)
SourcesAgree ==
  /\ stage # "asked" => ReadInOrder
  /\ (stage = "read" /\ query.from <= query.to) =>
    LET days == {d \in query.from .. query.to : TRUE}
        fetched(c) == GetAccountState(Restrict(books[c].answers, DOMAIN books[c].answers \cap days),
                                      <<>>)
        order == SetToSeq(query.ids)
        direct == CollapseAndGroupAccountsStates([i \in DOMAIN order |-> fetched(order[i])])
        inOneLot == \A c \in query.ids : \A a \in DOMAIN fetched(c) :
                      Cardinality(Dates(fetched(c)[a].holdings)) = Len(fetched(c)[a].holdings)
    IN  inOneLot => /\ state.totalHoldings = direct.totalHoldings
                    /\ Restrict(state.categoryAssets, DOMAIN direct.categoryAssets)
                         = direct.categoryAssets

\* "3d", of which the 3 is cut off as if it were the colon: it may be of no days.
LosesDigit(text) == ~text.colon /\ text.days # <<>>

\* "0w:0d", ":0d" and "0w", which are intervals like any other to the handlers.
OfNoDays(text) == \A part \in {text.weeks, text.days} : \A i \in DOMAIN part : part[i] = 0

(***************************************************************************)
(* Three kinds of text can send a request round for ever, and no others:   *)
(* those whose part in days is not led by its colon, and so loses its      *)
(* first digit; those of zeros only, which nothing refuses; and those of   *)
(* more days than a duration holds.                                        *)
(***************************************************************************)
WellFormedRequestsEnd ==
  stage = "looping" => LosesDigit(query.interval) \/ OfNoDays(query.interval) \/ Backward
=============================================================================
