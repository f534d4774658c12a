----------------------------- MODULE SyncService -----------------------------
(***************************************************************************)
(* POST /sync: copying an account's broker data into Postgres.             *)
(*                                                                         *)
(* A request reads which days of its range are missing from sync_logs,     *)
(* fetches the account from the broker (ESCO), and stores asset by asset:  *)
(* category, asset, one row per holding, one row per transaction, each in  *)
(* a database transaction of its own.  Only after the last asset does it   *)
(* write the days it found data for to sync_logs, in one transaction.      *)
(* Nothing spans these steps: requests interleave between any two calls,   *)
(* and an error or a crash leaves what was already committed.              *)
(*                                                                         *)
(* A request is never reused, so the local state of an ended request is    *)
(* the record of what the broker gave it.  A retry is another request.     *)
(***************************************************************************)
EXTENDS Naturals, FiniteSets

CONSTANTS
  Requests,     \* POST /sync calls, retries included
  Clients,      \* account ids
  Assets,       \* external ids of assets
  Categories,   \* names of asset categories
  CategoryOf,   \* the category the broker client's category map gives an asset
  LastDay,      \* the last calendar day of the model
  None,         \* no request data yet
  Undated,      \* the date of a transaction the broker gave no date
  MovementIds,  \* tells apart transactions equal in all else
  Positions,    \* end-of-day holdings in the broker's books
  Movements,    \* transactions in the broker's books
  Faults,       \* may calls fail and the process crash?
  LossyFetch,   \* may a fetch drop days or transactions and report success?
  Serial        \* does a client wait for a request to end before the next?

Days == 0 .. LastDay

Position == [client : Clients, asset : Assets, day : Days]
Movement == [client : Clients, asset : Assets, day : Days \cup {Undated},
             id : MovementIds]

ASSUME SyncAssumption ==
  /\ LastDay \in Nat
  /\ Undated \notin Nat
  /\ CategoryOf \in [Assets -> Categories]
  /\ Positions \subseteq Position
  /\ Movements \subseteq Movement
  /\ Faults \in BOOLEAN /\ LossyFetch \in BOOLEAN /\ Serial \in BOOLEAN

Items == Positions \cup Movements

VARIABLES
  pc,           \* the call each request makes next
  span,         \* the account and the range of days it was asked to sync
  toSync,       \* datesToSync: the days missing from sync_logs when it looked
  fetched,      \* accountState: the items the broker gave it
  todo,         \* assets its loop has still to visit
  asset,        \* the asset the loop is at
  pending,      \* rows of that asset it has still to insert
  dates,        \* days it has collected data for
  categories,   \* table asset_categories
  assets,       \* table assets
  holdings,     \* table holdings, unique on (client, asset, date)
  transactions, \* table transactions: how many rows there are of a movement
  syncLogs      \* table sync_logs, unique on (client, date)

local  == <<span, toSync, fetched, todo, asset, pending, dates>>
tables == <<categories, assets, holdings, transactions, syncLogs>>
vars   == <<pc, local, tables>>

Span == {s \in [client : Clients, from : Days, to : Days] : s.from <= s.to}

InFlight == {"dates", "fetch", "loop", "category", "newCategory", "asset",
             "store", "mark", "respond"}
Ended    == {"done", "failed"}

(***************************************************************************)
(* The account state a fetch of span s delivers.  Holdings are asked day   *)
(* by day from s.from to s.to inclusive; transactions in one call for the  *)
(* range, and kept only for assets that have a holding among those         *)
(* delivered.  Under LossyFetch the holdings of some days, or all the      *)
(* transactions, can be missing from a state returned without an error.    *)
(***************************************************************************)
Merge(ps, ms) == ps \cup {m \in ms : \E p \in ps : p.asset = m.asset}

HoldingsOn(s, D) == {p \in Positions : p.client = s.client /\ p.day \in D}

MovementsIn(s) == {m \in Movements : /\ m.client = s.client
                                     /\ m.day \in (s.from .. s.to) \cup {Undated}}

Deliveries(s) ==
  LET all == s.from .. s.to IN
  IF LossyFetch
  THEN {Merge(HoldingsOn(s, D), ms) : D \in SUBSET all, ms \in {{}, MovementsIn(s)}}
  ELSE {Merge(HoldingsOn(s, all), MovementsIn(s))}

AssetsOf(state) == {i.asset : i \in state}

\* Rows of asset a that pass the filter on datesToSync; undated ones never do.
Filtered(r, a) == {i \in fetched[r] : i.asset = a /\ i.day \in toSync[r]}

-----------------------------------------------------------------------------
Init ==
  /\ pc = [r \in Requests |-> "idle"]
  /\ span    = [r \in Requests |-> None]
  /\ asset   = [r \in Requests |-> None]
  /\ toSync  = [r \in Requests |-> {}]
  /\ fetched = [r \in Requests |-> {}]
  /\ todo    = [r \in Requests |-> {}]
  /\ pending = [r \in Requests |-> {}]
  /\ dates   = [r \in Requests |-> {}]
  /\ categories = {} /\ assets = {} /\ holdings = {}
  /\ transactions = [m \in Movements |-> 0]
  /\ syncLogs = {}

At(r, l) == pc[r] = l
Goto(r, l) == pc' = [pc EXCEPT ![r] = l]

\* A write was committed: the call returns, or its acknowledgement is lost and
\* the caller sees an error it gives up on.
Committed(r, l) == Goto(r, l) \/ (Faults /\ Goto(r, "failed"))

\* The handler accepts a range that may be empty (startDate = endDate).
SyncAccount(r, s) ==
  /\ At(r, "idle")
  /\ Serial => \A q \in Requests : pc[q] \notin InFlight
  /\ span' = [span EXCEPT ![r] = s]
  /\ Goto(r, "dates")
  /\ UNCHANGED <<toSync, fetched, todo, asset, pending, dates, tables>>

\* Mutation: the query does not filter by client.
SyncedDatesOfAnyClient(s) ==
  {d \in Days : s.from <= d /\ d < s.to /\ \E c \in Clients : <<c, d>> \in syncLogs}

\* The days of the range in sync_logs; the end of the range is excluded.
SyncedDates(s) ==
  {d \in Days : s.from <= d /\ d < s.to /\ <<s.client, d>> \in syncLogs}

\* Mutation: the end of the range is synced too, though never looked up.
DatesThroughEnd(s) == {d \in Days : s.from <= d /\ d <= s.to} \ SyncedDates(s)

\* datesToSync: the days of the range the log lacks.
DatesToSync(s) == {d \in Days : s.from <= d /\ d < s.to} \ SyncedDates(s)

\* One read of sync_logs; what it returns is acted on many calls later.
GetDatesToSync(r) ==
  /\ At(r, "dates")
  /\ toSync' = [toSync EXCEPT ![r] = DatesToSync(span[r])]
  /\ Goto(r, IF DatesToSync(span[r]) = {} THEN "respond" ELSE "fetch")
  /\ UNCHANGED <<span, fetched, todo, asset, pending, dates, tables>>

FetchAccountState(r) ==
  /\ At(r, "fetch")
  /\ \E state \in Deliveries(span[r]) :
       /\ fetched' = [fetched EXCEPT ![r] = state]
       /\ todo' = [todo EXCEPT ![r] = AssetsOf(state)]
  /\ Goto(r, "loop")
  /\ UNCHANGED <<span, toSync, asset, pending, dates, tables>>

\* A nil account state without an error ends the sync as a success.
FetchNothing(r) ==
  /\ Faults
  /\ At(r, "fetch")
  /\ Goto(r, "respond")
  /\ UNCHANGED <<local, tables>>

\* The loop over the assets, in Go's unspecified map order.
NextAsset(r) ==
  /\ At(r, "loop")
  /\ \E a \in todo[r] :
       /\ asset' = [asset EXCEPT ![r] = a]
       /\ todo' = [todo EXCEPT ![r] = @ \ {a}]
  /\ Goto(r, "category")
  /\ UNCHANGED <<span, toSync, fetched, pending, dates, tables>>

\* Mutation: the loop is left before its last asset.
AllAssetsStoredEarly(r) ==
  /\ At(r, "loop")
  /\ Cardinality(todo[r]) <= 1
  /\ Goto(r, IF dates[r] = {} THEN "respond" ELSE "mark")
  /\ UNCHANGED <<local, tables>>

AllAssetsStored(r) ==
  /\ At(r, "loop")
  /\ todo[r] = {}
  /\ Goto(r, IF dates[r] = {} THEN "respond" ELSE "mark")
  /\ UNCHANGED <<local, tables>>

\* Mutation: a missing category is not created.
GetCategoryUnchecked(r) ==
  /\ At(r, "category")
  /\ Goto(r, "asset")
  /\ UNCHANGED <<local, tables>>

\* A read that breaks off before its first row is taken for "no such category".
GetCategory(r) ==
  /\ At(r, "category")
  /\ \/ CategoryOf[asset[r]] \in categories /\ Goto(r, "asset")
     \/ (CategoryOf[asset[r]] \notin categories \/ Faults) /\ Goto(r, "newCategory")
  /\ UNCHANGED <<local, tables>>

CreateCategory(r) ==
  /\ At(r, "newCategory")
  /\ categories' = categories \cup {CategoryOf[asset[r]]}
  /\ Committed(r, "asset")
  /\ UNCHANGED <<local, assets, holdings, transactions, syncLogs>>

CreateAsset(r) ==
  /\ At(r, "asset")
  /\ assets' = assets \cup {asset[r]}
  /\ pending' = [pending EXCEPT ![r] = Filtered(r, asset[r])]
  /\ Committed(r, "store")
  /\ UNCHANGED <<span, toSync, fetched, todo, asset, dates,
                 categories, holdings, transactions, syncLogs>>

\* An upsert on (client, asset, date): storing a holding again leaves one row.
CreateHolding(r, p) ==
  /\ At(r, "store")
  /\ p \in pending[r]
  /\ holdings' = holdings \cup {p}
  /\ pending' = [pending EXCEPT ![r] = @ \ {p}]
  /\ Committed(r, "store")
  /\ UNCHANGED <<span, toSync, fetched, todo, asset, dates,
                 categories, assets, transactions, syncLogs>>

\* Mutation: the insert is retried when its acknowledgement is lost.
CreateTransactionRetried(r, m) ==
  /\ At(r, "store")
  /\ m \in pending[r]
  /\ pending[r] \cap Positions = {}
  /\ transactions' = [transactions EXCEPT ![m] = @ + 1]
  /\ pending' \in {pending, [pending EXCEPT ![r] = @ \ {m}]}
  /\ Goto(r, "store")
  /\ UNCHANGED <<span, toSync, fetched, todo, asset, dates,
                 categories, assets, holdings, syncLogs>>

\* A plain insert, after all the holdings of the asset: a new row every time.
CreateTransaction(r, m) ==
  /\ At(r, "store")
  /\ m \in pending[r]
  /\ pending[r] \cap Positions = {}
  /\ transactions' = [transactions EXCEPT ![m] = @ + 1]
  /\ pending' = [pending EXCEPT ![r] = @ \ {m}]
  /\ Committed(r, "store")
  /\ UNCHANGED <<span, toSync, fetched, todo, asset, dates,
                 categories, assets, holdings, syncLogs>>

\* Mutation: errors of the inserts are dropped.
AssetStoredAnyway(r) ==
  /\ At(r, "store")
  /\ dates' = [dates EXCEPT ![r] = @ \cup {i.day : i \in Filtered(r, asset[r])}]
  /\ Goto(r, "loop")
  /\ UNCHANGED <<span, toSync, fetched, todo, asset, pending, tables>>

\* Mutation: the days of the earlier assets are forgotten.
AssetStoredForgetting(r) ==
  /\ At(r, "store")
  /\ pending[r] = {}
  /\ dates' = [dates EXCEPT ![r] = {i.day : i \in Filtered(r, asset[r])}]
  /\ Goto(r, "loop")
  /\ UNCHANGED <<span, toSync, fetched, todo, asset, pending, tables>>

AssetStored(r) ==
  /\ At(r, "store")
  /\ pending[r] = {}
  /\ dates' = [dates EXCEPT ![r] = @ \cup {i.day : i \in Filtered(r, asset[r])}]
  /\ Goto(r, "loop")
  /\ UNCHANGED <<span, toSync, fetched, todo, asset, pending, tables>>

\* Mutation: every missing day is marked, with or without data.
MarkAllMissing(r) ==
  /\ At(r, "mark")
  /\ syncLogs' = syncLogs \cup ({span[r].client} \X toSync[r])
  /\ Committed(r, "respond")
  /\ UNCHANGED <<local, categories, assets, holdings, transactions>>

\* Mutation: the arguments of the insert are swapped.
MarkSwapped(r) ==
  /\ At(r, "mark")
  /\ syncLogs' = syncLogs \cup (dates[r] \X {span[r].client})
  /\ Committed(r, "respond")
  /\ UNCHANGED <<local, categories, assets, holdings, transactions>>

MarkDatesAsSynced(r) ==
  /\ At(r, "mark")
  /\ syncLogs' = syncLogs \cup ({span[r].client} \X dates[r])
  /\ Committed(r, "respond")
  /\ UNCHANGED <<local, categories, assets, holdings, transactions>>

\* The answer to the client is a fetch of its own, made after the sync.
Respond(r) ==
  /\ At(r, "respond")
  /\ Goto(r, "done")
  /\ UNCHANGED <<local, tables>>

\* A call to the broker or to Postgres fails without effect; every error path
\* returns the error at once and undoes nothing.
CallFails(r) ==
  /\ Faults
  /\ pc[r] \in InFlight \ {"loop"}
  /\ Goto(r, "failed")
  /\ UNCHANGED <<local, tables>>

\* The process dies: every request in flight is gone, the tables remain.
Crash ==
  /\ Faults
  /\ \E r \in Requests : pc[r] \in InFlight
  /\ pc' = [r \in Requests |-> IF pc[r] \in InFlight THEN "failed" ELSE pc[r]]
  /\ UNCHANGED <<local, tables>>

Step(r) ==
  \/ GetDatesToSync(r)
  \/ FetchAccountState(r) \/ FetchNothing(r)
  \/ NextAsset(r) \/ AllAssetsStored(r)
  \/ GetCategory(r) \/ CreateCategory(r) \/ CreateAsset(r)
  \/ \E p \in Positions : CreateHolding(r, p)
  \/ \E m \in Movements : CreateTransaction(r, m)
  \/ AssetStored(r)
  \/ MarkDatesAsSynced(r)
  \/ Respond(r)
  \/ CallFails(r)

Next ==
  \/ \E r \in Requests, s \in Span : SyncAccount(r, s)
  \/ \E r \in Requests : Step(r)
  \/ Crash

Spec == Init /\ [][Next]_vars

\* Every call returns, and the scheduler runs every goroutine that can go on.
FairSpec == Spec /\ \A r \in Requests : WF_vars(Step(r))

-----------------------------------------------------------------------------
TypeOK ==
  /\ pc \in [Requests -> InFlight \cup Ended \cup {"idle"}]
  /\ span    \in [Requests -> Span \cup {None}]
  /\ asset   \in [Requests -> Assets \cup {None}]
  /\ toSync  \in [Requests -> SUBSET Days]
  /\ fetched \in [Requests -> SUBSET Items]
  /\ todo    \in [Requests -> SUBSET Assets]
  /\ pending \in [Requests -> SUBSET Items]
  /\ dates   \in [Requests -> SUBSET Days]
  /\ categories \subseteq Categories
  /\ assets \subseteq Assets
  /\ holdings \subseteq Positions
  /\ transactions \in [Movements -> Nat]
  /\ syncLogs \subseteq Clients \X Days

Stored == holdings \cup {m \in Movements : transactions[m] > 0}

On(items, d) == {i \in items : i.day = d}

\* What a request was given for days that were missing.
Due(r) == {i \in fetched[r] : i.day \in toSync[r]}

\* No insert breaks a foreign key of the migrations, whatever the interleaving
\* of two requests creating the same category or asset: rows refer only to
\* assets, and assets to categories, that storeAsset has already committed.
ForeignKeysHold ==
  /\ \A a \in assets : CategoryOf[a] \in categories
  /\ \A i \in Stored : i.asset \in assets

\* A day is in sync_logs only if some request was given data for that day and
\* every item it was given for it is in the tables: an error or a crash midway
\* through StoreAccountState leaves days unmarked, never marked and incomplete.
MarkedDaysStored ==
  \A c \in Clients, d \in Days : <<c, d>> \in syncLogs =>
    \E r \in Requests :
      /\ pc[r] # "idle" /\ span[r].client = c
      /\ d \in toSync[r]
      /\ On(fetched[r], d) # {}
      /\ On(fetched[r], d) \subseteq Stored

\* When no fetch loses data, a marked day is complete against the broker's
\* books: all holdings, and all transactions of assets held at that day's end.
\* (A transaction of an asset held on no day of the range is dropped by the
\* merge in GetAccountStateWithTransactions and is not promised here.)
MarkedDaysComplete ==
  \A p \in Positions : <<p.client, p.day>> \in syncLogs =>
    /\ p \in holdings
    /\ \A m \in Movements :
         (m.client = p.client /\ m.asset = p.asset /\ m.day = p.day) =>
           transactions[m] > 0

\* When SyncDataFromAccount returns nil, every item it was given for a day that
\* was missing is stored, and its day is in sync_logs: no later request of the
\* client fetches it again.
SyncedMeansMarked ==
  \A r \in Requests : pc[r] \in {"respond", "done"} =>
    \A i \in Due(r) : i \in Stored /\ <<span[r].client, i.day>> \in syncLogs

\* A request inserts a transaction at most once: rows of one movement never
\* outnumber the requests that fetched it while its day was missing.
InsertedOncePerRequest ==
  \A m \in Movements :
    transactions[m] <=
      Cardinality({r \in Requests : m \in Due(r)})

\* A broker transaction has at most one row.  The sync log alone guards this:
\* it holds for requests that run one after another and meet no fault.
NoDuplicateTransactions == \A m \in Movements : transactions[m] <= 1

\* Without faults, a holding inside a requested range ends up stored, on a day
\* that is marked.
AskedDaysGetSynced ==
  \A r \in Requests, p \in Positions :
    (/\ At(r, "dates")
     /\ p.client = span[r].client
     /\ span[r].from <= p.day /\ p.day < span[r].to)
      ~> (p \in holdings /\ <<p.client, p.day>> \in syncLogs)

-----------------------------------------------------------------------------
(***************************************************************************)
(* The inductive invariant of the safety properties.  It says what the     *)
(* position of a request implies about its local state and the tables.     *)
(***************************************************************************)
InBody == {"category", "newCategory", "asset", "store"}

LocalsInv(r) ==
  /\ pc[r] # "idle" => span[r] \in Span
  /\ pc[r] \in {"idle", "dates", "fetch"} => fetched[r] = {} /\ dates[r] = {}
  /\ pc[r] \in {"idle", "dates"} => toSync[r] = {}
  /\ pc[r] \in InBody => asset[r] \in Assets
  /\ pc[r] = "mark" => todo[r] = {}
  /\ pending[r] \subseteq fetched[r]
  /\ fetched[r] # {} => fetched[r] \in Deliveries(span[r])
  /\ \A d \in toSync[r] : span[r].from <= d /\ d < span[r].to
  /\ \A d \in dates[r] : d \in toSync[r] /\ On(fetched[r], d) # {}

\* What the next insert of the request refers to is already there.
ReferencesInv(r) ==
  /\ pc[r] = "asset" => CategoryOf[asset[r]] \in categories
  /\ pc[r] = "store" => /\ asset[r] \in assets
                        /\ \A i \in pending[r] : i.asset = asset[r]

\* A due item is stored and its day collected, or the item belongs to an asset
\* the loop has not finished with.
Handled(r, i) ==
  \/ i \in Stored /\ i.day \in dates[r]
  \/ i.asset \in todo[r]
  \/ pc[r] \in InBody \ {"store"} /\ i.asset = asset[r]
  \/ pc[r] = "store" /\ i.asset = asset[r] /\ i \in pending[r] \cup Stored

ProgressInv(r) ==
  /\ pc[r] \in InBody \cup {"loop", "mark"} => \A i \in Due(r) : Handled(r, i)
  /\ pc[r] \in {"respond", "done"} =>
       \A i \in Due(r) : i \in Stored /\ <<span[r].client, i.day>> \in syncLogs

RequestInv(r) == LocalsInv(r) /\ ReferencesInv(r) /\ ProgressInv(r)

IInv == /\ TypeOK
        /\ ForeignKeysHold
        /\ MarkedDaysStored
        /\ \A r \in Requests : RequestInv(r)

(***************************************************************************)
(* For InsertedOncePerRequest: a request that was given a transaction has  *)
(* its insert still ahead, or is one of those that may have made it.       *)
(***************************************************************************)
Ahead(r, m) ==
  \/ m.asset \in todo[r]
  \/ pc[r] \in InBody \ {"store"} /\ m.asset = asset[r]
  \/ m \in pending[r]

InsertedBy(m) == {r \in Requests : m \in Due(r) /\ ~Ahead(r, m)}

InsertInv ==
  /\ \A m \in Movements : transactions[m] <= Cardinality(InsertedBy(m))
  /\ \A r \in Requests :
       /\ pc[r] \in InBody => asset[r] \notin todo[r]
       /\ pc[r] = "store" => pending[r] \subseteq Due(r)

(***************************************************************************)
(* For NoDuplicateTransactions, when requests run one after another and    *)
(* meet no fault: what a request is about to fetch is not marked yet, and  *)
(* no two requests are ever given the same item on a missing day.          *)
(***************************************************************************)
SerialInv ==
  /\ \A q, r \in Requests : {pc[q], pc[r]} \subseteq InFlight => q = r
  /\ \A r \in Requests :
       /\ pc[r] # "failed"
       /\ pc[r] = "fetch" => \A d \in toSync[r] : <<span[r].client, d>> \notin syncLogs
  /\ \A q, r \in Requests : q # r => Due(q) \cap Due(r) = {}

\* The account states the requests fetched, empty ones aside.
Supplied  == {r \in Requests : fetched[r] # {}}
Supply(r) == [client |-> span[r].client, items |-> fetched[r]]
Offered   == {Supply(r) : r \in Supplied}

\* The rows and marks a sync leaves are those the contract allows.
Contract == INSTANCE SyncContract WITH
  offered <- Offered, stored <- Stored, marked <- syncLogs

ImplementsContract == Contract!Spec
=============================================================================
