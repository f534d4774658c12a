---------------------------- MODULE AccountQueries ----------------------------
(***************************************************************************)
(* AccountService: reading an account back for a report while syncs write. *)
(*                                                                         *)
(* GetMultiAccountStateByCategory asks the tables seven questions and then *)
(* once per client for assets by id.  Every query is a statement of its    *)
(* own on the pool: nothing holds the answers together, and any of a       *)
(* sync's commits may fall between two of them.                            *)
(*                                                                         *)
(* A sum of values by date or by category and date is modelled by the rows *)
(* it is taken over: for holdings a set, for transactions, which may have  *)
(* equal rows, the number of rows of each.                                 *)
(***************************************************************************)
EXTENDS SyncService

CONSTANTS
  DefaultCategory,   \* "S / C"
  ReportQueries      \* the clients and the ranges of days reports are asked for

Query == {q \in [clients : SUBSET Clients, from : Days, to : Days] : q.from <= q.to}

ASSUME QueryAssumption ==
  /\ DefaultCategory \notin Categories
  /\ ReportQueries \subseteq Query

VARIABLES
  at,         \* the query the report makes next
  query,      \* its clients and its range of days
  sums,       \* rows of holdings under the category sums, the totals, the details
  counts,     \* the same for transactions
  named,      \* the assets GetWithCategories returned, each with its category
  todoClients,\* the clients whose account state is still to be built
  known,      \* the assets GetByIDs found, per client
  marked      \* sync_logs when the report began (history)

queryLocal == <<at, query, sums, counts, named, todoClients, known, marked>>
queryVars  == <<queryLocal, vars>>

Kinds   == {"category", "total", "detail"}
Asking  == {"categoryHoldings", "categoryTransactions", "totalHoldings",
            "totalTransactions", "assets", "holdings", "transactions", "byId"}

\* client_id = ANY(ids) AND date BETWEEN from AND to: the end is included.
InRange(i) == i.client \in query.clients /\ i.day \in query.from .. query.to

NoRows == [m \in Movements |-> 0]

\* Mutation: the end of the range is left out, as it is in a sync.
HoldingRowsToEnd == {p \in holdings : InRange(p) /\ p.day # query.to}

HoldingRows     == {p \in holdings : InRange(p)}
TransactionRows == [m \in Movements |-> IF InRange(m) THEN transactions[m] ELSE 0]

QueryInit ==
  /\ Init
  /\ at = "idle"
  /\ query = None
  /\ sums   = [k \in Kinds |-> {}]
  /\ counts = [k \in Kinds |-> NoRows]
  /\ named = {} /\ todoClients = {} /\ marked = {}
  /\ known = [c \in Clients |-> {}]

GetReport(q) ==
  /\ at = "idle"
  /\ query' = q
  /\ marked' = syncLogs
  /\ at' = "categoryHoldings"
  /\ UNCHANGED <<sums, counts, named, todoClients, known, vars>>

ReadHoldings(from, kind, to) ==
  /\ at = from
  /\ sums' = [sums EXCEPT ![kind] = HoldingRows]
  /\ at' = to
  /\ UNCHANGED <<query, counts, named, todoClients, known, marked, vars>>

ReadTransactions(from, kind, to) ==
  /\ at = from
  /\ counts' = [counts EXCEPT ![kind] = TransactionRows]
  /\ at' = to
  /\ UNCHANGED <<query, sums, named, todoClients, known, marked, vars>>

\* Mutation: the category sums are read last, after the details.
ReadsReordered ==
  \/ ReadHoldings("categoryHoldings", "detail", "categoryTransactions")
  \/ ReadTransactions("categoryTransactions", "detail", "totalHoldings")
  \/ ReadHoldings("totalHoldings", "total", "totalTransactions")
  \/ ReadTransactions("totalTransactions", "total", "assets")
  \/ ReadHoldings("holdings", "category", "transactions")
  \/ ReadTransactions("transactions", "category", "byId")

(***************************************************************************)
(* The sums by category and date join the rows with their assets and       *)
(* categories, which the foreign keys keep there: the joins drop no row.   *)
(***************************************************************************)
Reads ==
  \/ ReadHoldings("categoryHoldings", "category", "categoryTransactions")
  \/ ReadTransactions("categoryTransactions", "category", "totalHoldings")
  \/ ReadHoldings("totalHoldings", "total", "totalTransactions")
  \/ ReadTransactions("totalTransactions", "total", "assets")
  \/ ReadHoldings("holdings", "detail", "transactions")
  \/ ReadTransactions("transactions", "detail", "byId")

\* Mutation: only assets that have a holding in the totals are returned.
GetWithCategoriesOfSums ==
  /\ at = "assets"
  /\ named' = {p.asset : p \in sums["category"]}
  /\ todoClients' = query.clients
  /\ at' = "holdings"
  /\ UNCHANGED <<query, sums, counts, known, marked, vars>>

GetWithCategories ==
  /\ at = "assets"
  /\ named' = assets
  /\ todoClients' = query.clients
  /\ at' = "holdings"
  /\ UNCHANGED <<query, sums, counts, known, marked, vars>>

\* The assets of a client's rows.
AssetsRead(c) ==
  {p.asset : p \in {p \in sums["detail"] : p.client = c}} \cup
  {m.asset : m \in {m \in Movements : m.client = c /\ counts["detail"][m] > 0}}

\* buildAccountState for the next client; without rows it asks nothing.
GetByIDs(c) ==
  /\ at = "byId"
  /\ c \in todoClients
  /\ known' = [known EXCEPT ![c] = AssetsRead(c) \cap assets]
  /\ todoClients' = todoClients \ {c}
  /\ UNCHANGED <<at, query, sums, counts, named, marked, vars>>

BuildAccountStateByCategory ==
  /\ at = "byId"
  /\ todoClients = {}
  /\ at' = "done"
  /\ UNCHANGED <<query, sums, counts, named, todoClients, known, marked, vars>>

\* The error of a query is returned at once.
QueryFails ==
  /\ Faults
  /\ at \in Asking
  /\ at' = "failed"
  /\ UNCHANGED <<query, sums, counts, named, todoClients, known, marked, vars>>

Answer == \/ Reads \/ GetWithCategories
          \/ \E c \in Clients : GetByIDs(c)
          \/ BuildAccountStateByCategory

QueryNext ==
  \/ Next /\ UNCHANGED queryLocal
  \/ \E q \in ReportQueries : GetReport(q)
  \/ Answer
  \/ QueryFails

QuerySpec == QueryInit /\ [][QueryNext]_queryVars

-----------------------------------------------------------------------------
(***************************************************************************)
(* The report: the rows listed under each asset, and the category the      *)
(* asset is put in.  Rows of an asset GetByIDs did not find are left out.  *)
(***************************************************************************)
Listed == {p \in sums["detail"] : p.asset \in known[p.client]}

CategoryIn(a) == IF a \in named THEN CategoryOf[a] ELSE DefaultCategory

QueryTypeOK ==
  /\ at \in Asking \cup {"idle", "done", "failed"}
  /\ query \in Query \cup {None}
  /\ sums   \in [Kinds -> SUBSET Positions]
  /\ counts \in [Kinds -> [Movements -> Nat]]
  /\ named \subseteq Assets
  /\ todoClients \subseteq Clients
  /\ known \in [Clients -> SUBSET Assets]
  /\ marked \subseteq Clients \X Days

AtMostRows(few, many) == \A m \in Movements : few[m] <= many[m]

(***************************************************************************)
(* Whatever syncs commit meanwhile, the parts of a report disagree in one  *)
(* direction only: what a category sum includes is in the total, what the  *)
(* total includes is listed under its asset, and all of it is stored.      *)
(***************************************************************************)
LaterReadsSeeMore ==
  at = "done" =>
    /\ sums["category"] \subseteq sums["total"]
    /\ sums["total"] \subseteq Listed
    /\ Listed \subseteq holdings
    /\ AtMostRows(counts["category"], counts["total"])
    /\ AtMostRows(counts["total"], counts["detail"])
    /\ AtMostRows(counts["detail"], transactions)

(***************************************************************************)
(* An asset ends in the default category only if it is so new that none of *)
(* its rows is in a total of the same report: no part of a total is ever   *)
(* listed under "S / C" for lack of the asset's category.                  *)
(***************************************************************************)
DefaultCategoryIsNew ==
  at = "done" =>
    \A p \in Listed : CategoryIn(p.asset) = DefaultCategory =>
      p \notin sums["total"] /\ p \notin sums["category"]

(***************************************************************************)
(* A day that was in sync_logs when the report began is whole in it: every *)
(* holding the broker has for the day is in the category sum, in the       *)
(* total, and listed under an asset with its own category.  It takes syncs *)
(* whose fetches lose nothing.                                             *)
(***************************************************************************)
MarkedDaysReported ==
  at = "done" =>
    \A p \in Positions :
      (<<p.client, p.day>> \in marked /\ InRange(p)) =>
        /\ p \in sums["category"] \cap sums["total"] \cap Listed
        /\ CategoryIn(p.asset) = CategoryOf[p.asset]

-----------------------------------------------------------------------------
(***************************************************************************)
(* The inductive invariant: what a report has read, against the tables and *)
(* against what it read before.  The steps are named by the query that     *)
(* comes next.                                                             *)
(***************************************************************************)
AfterCategories == {"categoryTransactions", "totalHoldings", "totalTransactions",
                    "assets", "holdings", "transactions", "byId", "done"}
AfterTotals  == {"assets", "holdings", "transactions", "byId", "done"}
AfterAssets  == {"holdings", "transactions", "byId", "done"}
AfterDetails == {"byId", "done"}

RowsInv ==
  /\ at # "idle" => query \in Query
  /\ at = "idle" => \A k \in Kinds : sums[k] = {} /\ counts[k] = NoRows
  /\ \A k \in Kinds :
       /\ sums[k] \subseteq holdings
       /\ AtMostRows(counts[k], transactions)
       /\ at # "idle" => /\ \A p \in sums[k] : InRange(p)
                        /\ \A m \in Movements : counts[k][m] > 0 => InRange(m)

LaterInv ==
  /\ at \in AfterTotals \cup {"totalTransactions"} => sums["category"] \subseteq sums["total"]
  /\ at \in AfterTotals => AtMostRows(counts["category"], counts["total"])
  /\ at \in AfterDetails \cup {"transactions"} => sums["total"] \subseteq sums["detail"]
  /\ at \in AfterDetails => AtMostRows(counts["total"], counts["detail"])

\* The assets of what the totals cover are named; those of a client's rows are
\* found by id.
AssetsInv ==
  /\ at \in AfterAssets => \A p \in sums["total"] : p.asset \in named
  /\ at \in {"holdings", "transactions"} => todoClients = query.clients
  /\ at = "byId" => \A p \in sums["detail"] :
       p.client \in todoClients \/ p.asset \in known[p.client]
  /\ at = "done" => sums["detail"] \subseteq Listed

MarkedInv ==
  /\ marked \subseteq syncLogs
  /\ at \in AfterCategories =>
       \A p \in Positions :
         (<<p.client, p.day>> \in marked /\ InRange(p)) => p \in sums["category"]

QueryInv == QueryTypeOK /\ RowsInv /\ LaterInv /\ AssetsInv
=============================================================================
