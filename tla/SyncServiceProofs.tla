-------------------------- MODULE SyncServiceProofs --------------------------
(***************************************************************************)
(* Proofs about SyncService, for any set of requests, clients, assets and  *)
(* broker books: type correctness, the inductive invariant IInv, and the   *)
(* safety properties that follow from it.                                  *)
(***************************************************************************)
EXTENDS SyncService, FiniteSetTheorems, TLAPS

\* What a fetch returns consists of holdings and transactions.
LEMMA DeliveriesAreItems ==
  ASSUME NEW s \in Span, NEW state \in Deliveries(s)
  PROVE  state \in SUBSET Items
  BY DEF Deliveries, Merge, HoldingsOn, MovementsIn, Items

\* The assets of items are assets.
LEMMA ItemsAssets ==
  ASSUME NEW i \in Items
  PROVE  i.asset \in Assets
  BY SyncAssumption DEF Items, Position, Movement

\* The local variables and the tables have their types in every state.
LEMMA TypeInit == Init => TypeOK
  BY SyncAssumption DEF Init, TypeOK

\* Every step keeps the types.
LEMMA TypeStep ==
  ASSUME TypeOK, \A r \in Requests : LocalsInv(r), [Next]_vars
  PROVE  TypeOK'
<1> USE SyncAssumption DEF TypeOK
<1>1. ASSUME NEW r \in Requests, NEW s \in Span, SyncAccount(r, s)
      PROVE  TypeOK'
  BY <1>1 DEF SyncAccount, Goto, tables, InFlight, Ended
<1>2. ASSUME NEW r \in Requests, GetDatesToSync(r)
      PROVE  TypeOK'
  BY <1>2 DEF GetDatesToSync, DatesToSync, Goto, tables, InFlight, Ended
<1>3. ASSUME NEW r \in Requests, FetchAccountState(r)
      PROVE  TypeOK'
  <2>1. span[r] \in Span
    BY <1>3 DEF FetchAccountState, At, LocalsInv
  <2>2. PICK state \in Deliveries(span[r]) :
          /\ fetched' = [fetched EXCEPT ![r] = state]
          /\ todo' = [todo EXCEPT ![r] = AssetsOf(state)]
    BY <1>3 DEF FetchAccountState
  <2>3. state \in SUBSET Items
    BY <2>1, <2>2, DeliveriesAreItems
  <2>4. AssetsOf(state) \in SUBSET Assets
    BY <2>3, ItemsAssets DEF AssetsOf
  <2>5. QED
    BY <1>3, <2>2, <2>3, <2>4 DEF FetchAccountState, Goto, tables, InFlight, Ended
<1>4. ASSUME NEW r \in Requests, FetchNothing(r)
      PROVE  TypeOK'
  BY <1>4 DEF FetchNothing, Goto, local, tables, InFlight, Ended
<1>5. ASSUME NEW r \in Requests, NextAsset(r)
      PROVE  TypeOK'
  BY <1>5 DEF NextAsset, Goto, tables, InFlight, Ended
<1>6. ASSUME NEW r \in Requests, AllAssetsStored(r)
      PROVE  TypeOK'
  BY <1>6 DEF AllAssetsStored, Goto, local, tables, InFlight, Ended
<1>7. ASSUME NEW r \in Requests, GetCategory(r)
      PROVE  TypeOK'
  BY <1>7 DEF GetCategory, Goto, local, tables, InFlight, Ended
<1>8. ASSUME NEW r \in Requests, CreateCategory(r)
      PROVE  TypeOK'
  <2>1. asset[r] \in Assets
    BY <1>8 DEF CreateCategory, At, LocalsInv, InBody
  <2>2. CategoryOf[asset[r]] \in Categories
    BY <2>1
  <2>3. QED
    BY <1>8, <2>2 DEF CreateCategory, Committed, Goto, local, InFlight, Ended
<1>9. ASSUME NEW r \in Requests, CreateAsset(r)
      PROVE  TypeOK'
  <2>1. asset[r] \in Assets
    BY <1>9 DEF CreateAsset, At, LocalsInv, InBody
  <2>2. Filtered(r, asset[r]) \in SUBSET Items
    BY DEF Filtered
  <2>3. QED
    BY <1>9, <2>1, <2>2 DEF CreateAsset, Committed, Goto, InFlight, Ended
<1>10. ASSUME NEW r \in Requests, NEW p \in Positions, CreateHolding(r, p)
       PROVE  TypeOK'
  BY <1>10 DEF CreateHolding, Committed, Goto, InFlight, Ended
<1>11. ASSUME NEW r \in Requests, NEW m \in Movements, CreateTransaction(r, m)
       PROVE  TypeOK'
  BY <1>11 DEF CreateTransaction, Committed, Goto, InFlight, Ended
<1>12. ASSUME NEW r \in Requests, AssetStored(r)
       PROVE  TypeOK'
  <2>1. {i.day : i \in Filtered(r, asset[r])} \in SUBSET Days
    BY DEF Filtered
  <2>2. QED
    BY <1>12, <2>1 DEF AssetStored, Goto, tables, InFlight, Ended
<1>13. ASSUME NEW r \in Requests, MarkDatesAsSynced(r)
       PROVE  TypeOK'
  <2>1. span[r].client \in Clients
    BY <1>13 DEF MarkDatesAsSynced, At, LocalsInv, Span
  <2>2. QED
    BY <1>13, <2>1 DEF MarkDatesAsSynced, Committed, Goto, local, InFlight, Ended
<1>14. ASSUME NEW r \in Requests, Respond(r)
       PROVE  TypeOK'
  BY <1>14 DEF Respond, Goto, local, tables, InFlight, Ended
<1>15. ASSUME NEW r \in Requests, CallFails(r)
       PROVE  TypeOK'
  BY <1>15 DEF CallFails, Goto, local, tables, InFlight, Ended
<1>16. ASSUME Crash
       PROVE  TypeOK'
  BY <1>16 DEF Crash, local, tables, InFlight, Ended
<1>17. ASSUME UNCHANGED vars
       PROVE  TypeOK'
  BY <1>17 DEF vars, local, tables
<1>18. QED
  BY <1>1, <1>2, <1>3, <1>4, <1>5, <1>6, <1>7, <1>8, <1>9, <1>10, <1>11, <1>12,
     <1>13, <1>14, <1>15, <1>16, <1>17 DEF Next, Step

-----------------------------------------------------------------------------
\* No step removes a row of any table.
LEMMA TablesGrow ==
  ASSUME TypeOK, [Next]_vars
  PROVE  /\ categories \subseteq categories' /\ assets \subseteq assets'
         /\ Stored \subseteq Stored' /\ syncLogs \subseteq syncLogs'
<1> USE DEF TypeOK, Stored
<1>1. ASSUME NEW r \in Requests, NEW m \in Movements, CreateTransaction(r, m)
      PROVE  \A n \in Movements : transactions[n] > 0 => transactions'[n] > 0
  BY <1>1 DEF CreateTransaction
<1>2. CASE \E r \in Requests, m \in Movements : CreateTransaction(r, m)
  BY <1>1, <1>2 DEF CreateTransaction
<1>3. CASE ~ \E r \in Requests, m \in Movements : CreateTransaction(r, m)
  BY <1>3 DEF Next, Step, SyncAccount, GetDatesToSync, FetchAccountState,
     FetchNothing, NextAsset, AllAssetsStored, GetCategory, CreateCategory,
     CreateAsset, CreateHolding, AssetStored, MarkDatesAsSynced, Respond,
     CallFails, Crash, local, tables, vars
<1>4. QED
  BY <1>2, <1>3

Grown == /\ categories \subseteq categories' /\ assets \subseteq assets'
         /\ Stored \subseteq Stored' /\ syncLogs \subseteq syncLogs'

\* The local state of q, its program counter aside, is left alone.
Kept(q) == /\ span'[q] = span[q] /\ toSync'[q] = toSync[q]
           /\ fetched'[q] = fetched[q] /\ todo'[q] = todo[q]
           /\ asset'[q] = asset[q] /\ pending'[q] = pending[q]
           /\ dates'[q] = dates[q]

\* A request that does not move keeps its invariant while the tables grow.
LEMMA Frame ==
  ASSUME NEW q \in Requests, RequestInv(q), Grown, Kept(q), pc'[q] = pc[q]
  PROVE  RequestInv(q)'
<1> USE DEF Grown, Kept
<1>1. LocalsInv(q)'
  BY DEF RequestInv, LocalsInv, On, Deliveries, Merge, HoldingsOn, MovementsIn
<1>2. ReferencesInv(q)'
  BY DEF RequestInv, ReferencesInv
<1>3. ProgressInv(q)'
  BY DEF RequestInv, ProgressInv, Due, Handled
<1>4. QED
  BY <1>1, <1>2, <1>3 DEF RequestInv

\* So does a request whose call fails: nothing is asked of it any more.
LEMMA FailFrame ==
  ASSUME NEW q \in Requests, RequestInv(q), Grown, Kept(q),
         pc'[q] = "failed", pc[q] # "idle"
  PROVE  RequestInv(q)'
<1> USE DEF Grown, Kept
<1>1. LocalsInv(q)'
  BY DEF RequestInv, LocalsInv, On, InBody, Deliveries, Merge, HoldingsOn, MovementsIn
<1>2. QED
  BY <1>1 DEF RequestInv, ReferencesInv, ProgressInv, InBody

-----------------------------------------------------------------------------
\* The request that moves keeps its invariant, action by action.
LEMMA MoverKeeps ==
  ASSUME IInv, NEW r \in Requests, Grown, TypeOK',
         \/ \E s \in Span : SyncAccount(r, s)
         \/ Step(r)
  PROVE  RequestInv(r)'
<1> USE SyncAssumption DEF Grown
<1>0. TypeOK /\ RequestInv(r)
  BY DEF IInv
<1>1. ASSUME NEW s \in Span, SyncAccount(r, s)
      PROVE  RequestInv(r)'
  BY <1>0, <1>1 DEF SyncAccount, At, Goto, TypeOK, RequestInv, LocalsInv,
     ReferencesInv, ProgressInv, InBody, Due
<1>2. ASSUME GetDatesToSync(r)
      PROVE  RequestInv(r)'
  BY <1>0, <1>2 DEF GetDatesToSync, DatesToSync, At, Goto, tables, TypeOK, RequestInv,
     LocalsInv, ReferencesInv, ProgressInv, InBody, Due
<1>3. ASSUME FetchAccountState(r)
      PROVE  RequestInv(r)'
  <2>1. PICK state \in Deliveries(span[r]) :
          /\ fetched' = [fetched EXCEPT ![r] = state]
          /\ todo' = [todo EXCEPT ![r] = AssetsOf(state)]
    BY <1>3 DEF FetchAccountState
  <2>2. /\ At(r, "fetch") /\ pc'[r] = "loop"
        /\ fetched'[r] = state /\ todo'[r] = AssetsOf(state)
        /\ UNCHANGED <<span, toSync, asset, pending, dates, tables>>
    BY <1>0, <1>3, <2>1 DEF FetchAccountState, Goto, TypeOK
  <2>3. LocalsInv(r)'
    BY <1>0, <2>1, <2>2 DEF At, RequestInv, LocalsInv, InBody, Deliveries,
       Merge, HoldingsOn, MovementsIn
  <2>4. QED
    BY <2>2, <2>3 DEF RequestInv, ReferencesInv, ProgressInv, InBody, Due,
       Handled, AssetsOf
<1>4. ASSUME FetchNothing(r)
      PROVE  RequestInv(r)'
  BY <1>0, <1>4 DEF FetchNothing, At, Goto, local, tables, TypeOK, RequestInv,
     LocalsInv, ReferencesInv, ProgressInv, InBody, Due
<1>5. ASSUME NextAsset(r)
      PROVE  RequestInv(r)'
  <2>1. PICK a \in todo[r] : /\ asset' = [asset EXCEPT ![r] = a]
                             /\ todo' = [todo EXCEPT ![r] = @ \ {a}]
    BY <1>5 DEF NextAsset
  <2>2. /\ At(r, "loop") /\ pc'[r] = "category" /\ a \in Assets
        /\ asset'[r] = a /\ todo'[r] = todo[r] \ {a}
        /\ UNCHANGED <<span, toSync, fetched, pending, dates, tables>>
    BY <1>0, <1>5, <2>1 DEF NextAsset, Goto, TypeOK
  <2>3. LocalsInv(r)'
    BY <1>0, <2>2 DEF At, RequestInv, LocalsInv, InBody, On, Deliveries, Merge,
       HoldingsOn, MovementsIn
  <2>4. QED
    BY <1>0, <2>2, <2>3 DEF At, tables, RequestInv, ReferencesInv, ProgressInv,
       InBody, Due, Handled
<1>6. ASSUME AllAssetsStored(r)
      PROVE  RequestInv(r)'
  <2>1. LocalsInv(r)'
    BY <1>0, <1>6 DEF AllAssetsStored, At, Goto, local, tables, TypeOK,
       RequestInv, LocalsInv, InBody, On, Deliveries, Merge, HoldingsOn, MovementsIn
  <2>2. QED
    BY <1>0, <1>6, <2>1 DEF AllAssetsStored, At, Goto, local, tables, TypeOK,
       RequestInv, ReferencesInv, ProgressInv, InBody, Due, Handled
<1>7. ASSUME GetCategory(r)
      PROVE  RequestInv(r)'
  <2>1. LocalsInv(r)'
    BY <1>0, <1>7 DEF GetCategory, At, Goto, local, tables, TypeOK,
       RequestInv, LocalsInv, InBody, On, Deliveries, Merge, HoldingsOn, MovementsIn
  <2>2. QED
    BY <1>0, <1>7, <2>1 DEF GetCategory, At, Goto, local, tables, TypeOK,
       RequestInv, ReferencesInv, ProgressInv, InBody, Due, Handled
<1>fail. ASSUME pc' = [pc EXCEPT ![r] = "failed"], Kept(r), pc[r] # "idle"
         PROVE  RequestInv(r)'
  BY <1>0, <1>fail, FailFrame DEF TypeOK
<1>8. ASSUME CreateCategory(r)
      PROVE  RequestInv(r)'
  <2>1. CASE Goto(r, "asset")
    <3>1. LocalsInv(r)'
      BY <1>0, <1>8, <2>1 DEF CreateCategory, At, Goto, local, TypeOK,
         RequestInv, LocalsInv, InBody, On, Deliveries, Merge, HoldingsOn, MovementsIn
    <3>2. QED
      BY <1>0, <1>8, <2>1, <3>1 DEF CreateCategory, At, Goto, local, TypeOK,
         RequestInv, ReferencesInv, ProgressInv, InBody, Due, Handled
  <2>2. CASE Goto(r, "failed")
    BY <1>8, <1>fail, <2>2 DEF CreateCategory, At, Goto, local, Kept
  <2>3. QED
    BY <1>8, <2>1, <2>2 DEF CreateCategory, Committed
<1>9. ASSUME CreateAsset(r)
      PROVE  RequestInv(r)'
  <2>1. /\ At(r, "asset") /\ pending'[r] = Filtered(r, asset[r])
        /\ pc'[r] \in {"store", "failed"} /\ asset[r] \in assets'
        /\ UNCHANGED <<span, toSync, fetched, todo, asset, dates, syncLogs>>
    BY <1>0, <1>9 DEF CreateAsset, Committed, Goto, TypeOK
  <2>2. LocalsInv(r)'
    BY <1>0, <2>1 DEF At, RequestInv, LocalsInv, InBody, Filtered, On,
       Deliveries, Merge, HoldingsOn, MovementsIn
  <2>3. ReferencesInv(r)'
    BY <2>1 DEF ReferencesInv, Filtered
  <2>4. ProgressInv(r)'
    BY <1>0, <2>1 DEF At, RequestInv, ProgressInv, InBody, Due, Handled, Filtered
  <2>5. QED
    BY <2>2, <2>3, <2>4 DEF RequestInv
<1>10. ASSUME NEW p \in Positions, CreateHolding(r, p)
       PROVE  RequestInv(r)'
  <2>1. /\ At(r, "store") /\ pending'[r] = pending[r] \ {p}
        /\ pc'[r] \in {"store", "failed"} /\ p \in Stored'
        /\ UNCHANGED <<span, toSync, fetched, todo, asset, dates, syncLogs>>
    BY <1>0, <1>10 DEF CreateHolding, Committed, Goto, TypeOK, Stored
  <2>2. LocalsInv(r)'
    BY <1>0, <2>1 DEF At, RequestInv, LocalsInv, InBody, On, Deliveries, Merge,
       HoldingsOn, MovementsIn
  <2>3. ReferencesInv(r)'
    BY <1>0, <2>1 DEF At, RequestInv, ReferencesInv
  <2>4. ProgressInv(r)'
    BY <1>0, <2>1 DEF At, RequestInv, ProgressInv, InBody, Due, Handled
  <2>5. QED
    BY <2>2, <2>3, <2>4 DEF RequestInv
<1>11. ASSUME NEW m \in Movements, CreateTransaction(r, m)
       PROVE  RequestInv(r)'
  <2>1. /\ At(r, "store") /\ pending'[r] = pending[r] \ {m}
        /\ pc'[r] \in {"store", "failed"} /\ m \in Stored'
        /\ UNCHANGED <<span, toSync, fetched, todo, asset, dates, syncLogs>>
    BY <1>0, <1>11 DEF CreateTransaction, Committed, Goto, TypeOK, Stored
  <2>2. LocalsInv(r)'
    BY <1>0, <2>1 DEF At, RequestInv, LocalsInv, InBody, On, Deliveries, Merge,
       HoldingsOn, MovementsIn
  <2>3. ReferencesInv(r)'
    BY <1>0, <2>1 DEF At, RequestInv, ReferencesInv
  <2>4. ProgressInv(r)'
    BY <1>0, <2>1 DEF At, RequestInv, ProgressInv, InBody, Due, Handled
  <2>5. QED
    BY <2>2, <2>3, <2>4 DEF RequestInv
<1>12. ASSUME AssetStored(r)
       PROVE  RequestInv(r)'
  <2>1. /\ At(r, "store") /\ pending[r] = {} /\ pc'[r] = "loop"
        /\ dates'[r] = dates[r] \cup {i.day : i \in Filtered(r, asset[r])}
        /\ UNCHANGED <<span, toSync, fetched, todo, asset, pending, tables>>
    BY <1>0, <1>12 DEF AssetStored, Goto, TypeOK
  <2>2. LocalsInv(r)'
    BY <1>0, <2>1 DEF At, RequestInv, LocalsInv, InBody, Filtered, On,
       Deliveries, Merge, HoldingsOn, MovementsIn
  <2>3. ProgressInv(r)'
    BY <1>0, <2>1 DEF At, RequestInv, ProgressInv, InBody, Due, Handled, Filtered
  <2>4. QED
    BY <2>1, <2>2, <2>3 DEF RequestInv, ReferencesInv
<1>13. ASSUME MarkDatesAsSynced(r)
       PROVE  RequestInv(r)'
  <2>1. /\ At(r, "mark") /\ pc'[r] \in {"respond", "failed"}
        /\ syncLogs' = syncLogs \cup ({span[r].client} \X dates[r])
        /\ UNCHANGED local
    BY <1>0, <1>13 DEF MarkDatesAsSynced, Committed, Goto, TypeOK
  <2>2. LocalsInv(r)'
    BY <1>0, <2>1 DEF At, local, RequestInv, LocalsInv, InBody, On,
       Deliveries, Merge, HoldingsOn, MovementsIn
  <2>3. \A i \in Due(r) : i \in Stored /\ i.day \in dates[r]
    BY <1>0, <2>1 DEF At, RequestInv, LocalsInv, ProgressInv, InBody, Handled
  <2>4. ProgressInv(r)'
    BY <2>1, <2>3 DEF local, ProgressInv, InBody, Due
  <2>5. QED
    BY <2>1, <2>2, <2>4 DEF RequestInv, ReferencesInv
<1>14. ASSUME Respond(r)
       PROVE  RequestInv(r)'
  <2>1. LocalsInv(r)'
    BY <1>0, <1>14 DEF Respond, At, Goto, local, tables, TypeOK,
       RequestInv, LocalsInv, InBody, On, Deliveries, Merge, HoldingsOn, MovementsIn
  <2>2. QED
    BY <1>0, <1>14, <2>1 DEF Respond, At, Goto, local, tables, TypeOK,
       RequestInv, ReferencesInv, ProgressInv, InBody, Due
<1>15. ASSUME CallFails(r)
       PROVE  RequestInv(r)'
  BY <1>15, <1>fail DEF CallFails, Goto, local, Kept, InFlight
<1>16. QED
  BY <1>1, <1>2, <1>3, <1>4, <1>5, <1>6, <1>7, <1>8, <1>9, <1>10, <1>11, <1>12,
     <1>13, <1>14, <1>15 DEF Step

-----------------------------------------------------------------------------
\* A marked day keeps its backing: the request that backs it has fetched its
\* data, and from then on its span, its due days and its data never change.
LEMMA BackingStays ==
  ASSUME IInv, [Next]_vars, Grown, NEW c, NEW d, NEW r \in Requests,
         pc[r] # "idle", span[r].client = c, d \in toSync[r],
         On(fetched[r], d) # {}, On(fetched[r], d) \subseteq Stored
  PROVE  /\ pc'[r] # "idle" /\ span'[r].client = c /\ d \in toSync'[r]
         /\ On(fetched'[r], d) # {} /\ On(fetched'[r], d) \subseteq Stored'
<1>1. TypeOK /\ LocalsInv(r) /\ fetched[r] # {}
  BY DEF IInv, RequestInv, On
<1>2. pc[r] \notin {"idle", "dates", "fetch"}
  BY <1>1 DEF LocalsInv
<1>3. /\ pc'[r] # "idle"
      /\ span'[r] = span[r] /\ toSync'[r] = toSync[r] /\ fetched'[r] = fetched[r]
  BY <1>1, <1>2 DEF TypeOK, At, Goto, Committed, Next, Step, SyncAccount, GetDatesToSync,
     FetchAccountState, FetchNothing, NextAsset, AllAssetsStored, GetCategory,
     CreateCategory, CreateAsset, CreateHolding, CreateTransaction, AssetStored,
     MarkDatesAsSynced, Respond, CallFails, Crash, local, tables, vars
<1>4. QED
  BY <1>3 DEF Grown, On

\* The days a request marks are backed by what it stored itself.
LEMMA MarkedByMover ==
  ASSUME IInv, NEW r \in Requests, MarkDatesAsSynced(r), NEW d \in dates[r]
  PROVE  /\ pc[r] # "idle" /\ d \in toSync[r]
         /\ On(fetched[r], d) # {} /\ On(fetched[r], d) \subseteq Stored
  BY DEF MarkDatesAsSynced, At, IInv, RequestInv, LocalsInv, ProgressInv, InBody,
     Due, Handled, On

\* Every step keeps marked days backed by one complete delivery.
LEMMA MarkedStep ==
  ASSUME IInv, [Next]_vars, Grown, TypeOK'
  PROVE  MarkedDaysStored'
<1> SUFFICES ASSUME NEW c \in Clients, NEW d \in Days, <<c, d>> \in syncLogs'
             PROVE  \E r \in Requests :
                      /\ pc'[r] # "idle" /\ span'[r].client = c
                      /\ d \in toSync'[r]
                      /\ On(fetched'[r], d) # {}
                      /\ On(fetched'[r], d) \subseteq Stored'
  BY DEF MarkedDaysStored, On
<1>1. \E r \in Requests :
        /\ pc[r] # "idle" /\ span[r].client = c
        /\ d \in toSync[r]
        /\ On(fetched[r], d) # {}
        /\ On(fetched[r], d) \subseteq Stored
  <2>1. CASE <<c, d>> \in syncLogs
    BY <2>1 DEF IInv, MarkedDaysStored
  <2>2. CASE <<c, d>> \notin syncLogs
    <3>1. PICK r \in Requests : MarkDatesAsSynced(r)
      BY <2>2 DEF Next, Step, SyncAccount, GetDatesToSync, FetchAccountState,
         FetchNothing, NextAsset, AllAssetsStored, GetCategory, CreateCategory,
         CreateAsset, CreateHolding, CreateTransaction, AssetStored, Respond,
         CallFails, Crash, local, tables, vars
    <3>2. c = span[r].client /\ d \in dates[r]
      BY <2>2, <3>1 DEF MarkDatesAsSynced
    <3>3. QED
      BY <3>1, <3>2, MarkedByMover
  <2>3. QED
    BY <2>1, <2>2
<1>2. QED
  BY <1>1, BackingStays

\* Every step keeps the foreign keys.
LEMMA ForeignKeysStep ==
  ASSUME IInv, [Next]_vars, Grown
  PROVE  ForeignKeysHold'
<1> USE DEF Grown
<1>0. TypeOK /\ ForeignKeysHold /\ \A r \in Requests : ReferencesInv(r)
  BY DEF IInv, RequestInv
<1>1. ASSUME NEW a \in assets', a \notin assets
      PROVE  CategoryOf[a] \in categories
  <2>1. PICK r \in Requests : CreateAsset(r)
    BY <1>1 DEF Next, Step, SyncAccount, GetDatesToSync, FetchAccountState,
       FetchNothing, NextAsset, AllAssetsStored, GetCategory, CreateCategory,
       CreateHolding, CreateTransaction, AssetStored, MarkDatesAsSynced,
       Respond, CallFails, Crash, local, tables, vars
  <2>2. QED
    BY <1>0, <1>1, <2>1 DEF CreateAsset, At, ReferencesInv
<1>2. ASSUME NEW i \in Stored', i \notin Stored
      PROVE  i.asset \in assets
  <2>1. CASE \E r \in Requests, p \in Positions : CreateHolding(r, p)
    BY <1>0, <1>2, <2>1 DEF CreateHolding, At, ReferencesInv, Stored
  <2>2. CASE \E r \in Requests, m \in Movements : CreateTransaction(r, m)
    <3>1. PICK r \in Requests, m \in Movements : CreateTransaction(r, m)
      BY <2>2
    <3>2. i = m
      BY <1>0, <1>2, <3>1 DEF CreateTransaction, Stored, TypeOK
    <3>3. QED
      BY <1>0, <3>1, <3>2 DEF CreateTransaction, At, ReferencesInv
  <2>3. CASE /\ ~ \E r \in Requests, p \in Positions : CreateHolding(r, p)
             /\ ~ \E r \in Requests, m \in Movements : CreateTransaction(r, m)
    BY <1>2, <2>3 DEF Next, Step, SyncAccount, GetDatesToSync, FetchAccountState,
       FetchNothing, NextAsset, AllAssetsStored, GetCategory, CreateCategory,
       CreateAsset, AssetStored, MarkDatesAsSynced, Respond, CallFails, Crash,
       local, tables, vars, Stored
  <2>4. QED
    BY <2>1, <2>2, <2>3
<1>3. QED
  BY <1>0, <1>1, <1>2 DEF ForeignKeysHold

\* The inductive invariant holds initially and is kept by every step.
LEMMA IInvInit == Init => IInv
<1> SUFFICES ASSUME Init
             PROVE  IInv
  OBVIOUS
<1>1. TypeOK
  BY TypeInit
<1>2. ForeignKeysHold /\ MarkedDaysStored
  BY DEF Init, ForeignKeysHold, MarkedDaysStored, Stored
<1>3. \A r \in Requests : RequestInv(r)
  BY DEF Init, RequestInv, LocalsInv, ReferencesInv, ProgressInv, InBody, Due
<1>4. QED
  BY <1>1, <1>2, <1>3 DEF IInv

\* Every step keeps the inductive invariant.
LEMMA IInvStep == IInv /\ [Next]_vars => IInv'
<1> SUFFICES ASSUME IInv, [Next]_vars
             PROVE  IInv'
  OBVIOUS
<1>1. TypeOK /\ \A r \in Requests : LocalsInv(r) /\ RequestInv(r)
  BY DEF IInv, RequestInv
<1>2. TypeOK'
  BY <1>1, TypeStep
<1>3. Grown
  BY <1>1, TablesGrow DEF Grown
<1>4. ForeignKeysHold' /\ MarkedDaysStored'
  BY <1>2, <1>3, ForeignKeysStep, MarkedStep
<1>5. ASSUME NEW q \in Requests
      PROVE  RequestInv(q)'
  <2>1. CASE Step(q) \/ \E s \in Span : SyncAccount(q, s)
    BY <1>2, <1>3, <2>1, MoverKeeps
  <2>2. ASSUME NEW r \in Requests, r # q,
               Step(r) \/ \E s \in Span : SyncAccount(r, s)
        PROVE  Kept(q) /\ pc'[q] = pc[q]
    BY <1>1, <2>2 DEF TypeOK, Kept, Goto, Committed, Step, SyncAccount,
       GetDatesToSync, FetchAccountState, FetchNothing, NextAsset,
       AllAssetsStored, GetCategory, CreateCategory, CreateAsset, CreateHolding,
       CreateTransaction, AssetStored, MarkDatesAsSynced, Respond, CallFails,
       local, tables
  <2>3. CASE Crash
    <3>1. Kept(q) /\ pc'[q] \in {pc[q], "failed"} /\ (pc'[q] # pc[q] => pc[q] # "idle")
      BY <2>3 DEF Crash, local, Kept, InFlight
    <3>2. QED
      BY <1>1, <1>3, <3>1, Frame, FailFrame
  <2>4. CASE UNCHANGED vars
    <3>1. Kept(q) /\ pc'[q] = pc[q]
      BY <2>4 DEF vars, local, Kept
    <3>2. QED
      BY <1>1, <1>3, <3>1, Frame
  <2>5. QED
    BY <1>1, <1>3, <2>1, <2>2, <2>3, <2>4, Frame DEF Next
<1>6. QED
  BY <1>2, <1>4, <1>5 DEF IInv

\* Whatever requests, faults and lossy fetches there are, the invariant holds.
THEOREM Invariance == Spec => []IInv
<1>1. QED
  BY IInvInit, IInvStep, PTL DEF Spec

\* Variables and tables keep their types.
THEOREM TypeCorrect == Spec => []TypeOK
<1>1. IInv => TypeOK
  BY DEF IInv
<1>2. QED
  BY <1>1, Invariance, PTL

\* No insert of storeAsset, storeHoldings or storeTransactions breaks a foreign
\* key, whichever requests interleave.
THEOREM ForeignKeysSafe == Spec => []ForeignKeysHold
<1>1. IInv => ForeignKeysHold
  BY DEF IInv
<1>2. QED
  BY <1>1, Invariance, PTL

\* A day is in sync_logs only when everything some request was given for it is
\* in the tables, whatever calls failed and whenever the process crashed.
THEOREM MarksAreBacked == Spec => []MarkedDaysStored
<1>1. IInv => MarkedDaysStored
  BY DEF IInv
<1>2. QED
  BY <1>1, Invariance, PTL

\* SyncDataFromAccount returns nil only when all it was given for missing days
\* is stored and those days are marked.
THEOREM SuccessIsComplete == Spec => []SyncedMeansMarked
<1>1. IInv => SyncedMeansMarked
  BY DEF IInv, RequestInv, ProgressInv, SyncedMeansMarked
<1>2. QED
  BY <1>1, Invariance, PTL

-----------------------------------------------------------------------------
\* If no fetch loses data, the inductive invariant implies that marked days are
\* complete: the request that backs the mark was given all of the day.
LEMMA MarkedMeansComplete ==
  ASSUME ~LossyFetch, IInv
  PROVE  MarkedDaysComplete
<1> SUFFICES ASSUME NEW p \in Positions, <<p.client, p.day>> \in syncLogs
             PROVE  /\ p \in holdings
                    /\ \A m \in Movements :
                         (m.client = p.client /\ m.asset = p.asset /\ m.day = p.day)
                           => transactions[m] > 0
  BY DEF MarkedDaysComplete
<1>1. p.client \in Clients /\ p.day \in Days
  BY SyncAssumption DEF Position
<1>2. PICK r \in Requests :
        /\ span[r].client = p.client /\ p.day \in toSync[r]
        /\ On(fetched[r], p.day) # {} /\ On(fetched[r], p.day) \subseteq Stored
  BY <1>1 DEF IInv, MarkedDaysStored
<1>3. /\ fetched[r] = Merge(HoldingsOn(span[r], span[r].from .. span[r].to),
                            MovementsIn(span[r]))
      /\ span[r].from <= p.day /\ p.day < span[r].to
      /\ span[r] \in Span
  <2>1. fetched[r] \in Deliveries(span[r]) /\ pc[r] # "idle"
    BY <1>2 DEF IInv, RequestInv, LocalsInv, On
  <2>2. QED
    BY <1>2, <2>1 DEF IInv, RequestInv, LocalsInv, Deliveries
<1>4. p.day \in span[r].from .. span[r].to
  BY <1>1, <1>3, SyncAssumption DEF Span, Days
<1>5. p \in HoldingsOn(span[r], span[r].from .. span[r].to)
  BY <1>2, <1>4 DEF HoldingsOn
<1>6. p \in Stored
  BY <1>2, <1>3, <1>5 DEF Merge, On
<1>7. p \notin Movements
  BY SyncAssumption DEF Position, Movement
<1>8. ASSUME NEW m \in Movements,
             m.client = p.client, m.asset = p.asset, m.day = p.day
      PROVE  transactions[m] > 0
  <2>1. m \in MovementsIn(span[r])
    BY <1>2, <1>4, <1>8 DEF MovementsIn
  <2>2. m \in Stored
    BY <1>2, <1>3, <1>5, <1>8, <2>1 DEF Merge, On
  <2>3. m \notin Positions
    BY SyncAssumption DEF Position, Movement
  <2>4. QED
    BY <2>2, <2>3 DEF Stored, IInv, TypeOK
<1>9. QED
  BY <1>6, <1>7, <1>8 DEF Stored

\* A marked day is complete against the broker's books if no fetch loses data.
THEOREM MarksAreComplete == ASSUME ~LossyFetch PROVE Spec => []MarkedDaysComplete
<1>1. IInv => MarkedDaysComplete
  BY MarkedMeansComplete
<1>2. QED
  BY <1>1, Invariance, PTL

-----------------------------------------------------------------------------
\* Steps that leave fetched states, rows and marks alone are the contract's
\* stutters.
LEMMA ContractStutter ==
  ASSUME UNCHANGED <<span, fetched, holdings, transactions, syncLogs>>
  PROVE  UNCHANGED Contract!vars
  BY DEF Contract!vars, Stored, Offered, Supply, Supplied

\* A non-empty state some request has fetched was offered.
LEMMA OfferedBy ==
  ASSUME NEW r \in Requests, fetched[r] # {}
  PROVE  /\ Supply(r) \in Offered
         /\ Supply(r).client = span[r].client /\ Supply(r).items = fetched[r]
  BY DEF Offered, Supply, Supplied

\* Every step of a sync is a step of the contract, or changes nothing of it.
LEMMA ContractStep ==
  ASSUME IInv, [Next]_vars
  PROVE  [Contract!Next]_(Contract!vars)
<1> USE SyncAssumption
<1>0. TypeOK /\ \A r \in Requests : LocalsInv(r)
  BY DEF IInv, RequestInv
<1>1. ASSUME NEW r \in Requests, NEW s \in Span, SyncAccount(r, s)
      PROVE  UNCHANGED Contract!vars
  BY <1>0, <1>1 DEF SyncAccount, At, LocalsInv, TypeOK, tables, Contract!vars,
     Stored, Offered, Supply, Supplied
<1>2. ASSUME NEW r \in Requests, FetchAccountState(r)
      PROVE  [Contract!Next]_(Contract!vars)
  <2>1. PICK state \in Deliveries(span[r]) : fetched' = [fetched EXCEPT ![r] = state]
    BY <1>2 DEF FetchAccountState
  <2>2. /\ span[r] \in Span /\ fetched[r] = {}
        /\ UNCHANGED <<span, holdings, transactions, syncLogs>>
    BY <1>0, <1>2 DEF FetchAccountState, At, LocalsInv, tables
  <2>3. state \in SUBSET Items /\ span[r].client \in Clients
    BY <2>1, <2>2, DeliveriesAreItems DEF Span
  <2>4. CASE state = {}
    BY <1>0, <2>1, <2>2, <2>4 DEF TypeOK, Contract!vars, Stored, Offered, Supply,
       Supplied
  <2>5. CASE state # {}
    <3>1. Supplied' = Supplied \cup {r}
      BY <1>0, <2>1, <2>2, <2>5 DEF TypeOK, Supplied
    <3>2. \A q \in Supplied : Supply(q)' = Supply(q)
      BY <1>0, <2>1, <2>2 DEF TypeOK, Supplied, Supply
    <3>3. Supply(r)' = [client |-> span[r].client, items |-> state]
      BY <1>0, <2>1, <2>2 DEF TypeOK, Supply
    <3>4. Offered' = Offered \cup {[client |-> span[r].client, items |-> state]}
      BY <3>1, <3>2, <3>3 DEF Offered
    <3>5. Contract!Offer(span[r].client, state)
      BY <2>2, <3>4 DEF Contract!Offer, Stored
    <3>6. QED
      BY <2>3, <3>5 DEF Contract!Next
  <2>6. QED
    BY <2>4, <2>5
<1>3. ASSUME NEW r \in Requests, NEW p \in Positions, CreateHolding(r, p)
      PROVE  Contract!Next
  <2>1. p \in fetched[r] /\ p \in Items
    BY <1>0, <1>3 DEF CreateHolding, LocalsInv, Items
  <2>2. Contract!Store(p)
    <3>1. Supply(r) \in Offered /\ p \in Supply(r).items
      BY <2>1, OfferedBy
    <3>2. UNCHANGED <<Offered, syncLogs>> /\ Stored' = Stored \cup {p}
      BY <1>3 DEF CreateHolding, Stored, Offered, Supply, Supplied
    <3>3. QED
      BY <3>1, <3>2 DEF Contract!Store
  <2>3. QED
    BY <2>1, <2>2 DEF Contract!Next
<1>4. ASSUME NEW r \in Requests, NEW m \in Movements, CreateTransaction(r, m)
      PROVE  Contract!Next
  <2>1. m \in fetched[r] /\ m \in Items
    BY <1>0, <1>4 DEF CreateTransaction, LocalsInv, Items
  <2>2. Stored' = Stored \cup {m}
    BY <1>0, <1>4 DEF CreateTransaction, Stored, TypeOK
  <2>3. Contract!Store(m)
    <3>1. Supply(r) \in Offered /\ m \in Supply(r).items
      BY <2>1, OfferedBy
    <3>2. UNCHANGED <<Offered, syncLogs>>
      BY <1>4 DEF CreateTransaction, Offered, Supply, Supplied
    <3>3. QED
      BY <2>2, <3>1, <3>2 DEF Contract!Store
  <2>4. QED
    BY <2>1, <2>3 DEF Contract!Next
<1>5. ASSUME NEW r \in Requests, MarkDatesAsSynced(r)
      PROVE  Contract!Next
  <2>1. span[r].client \in Clients /\ dates[r] \in SUBSET Days
    BY <1>0, <1>5 DEF MarkDatesAsSynced, At, LocalsInv, Span, TypeOK
  <2>2. \A d \in dates[r] : On(fetched[r], d) # {} /\ On(fetched[r], d) \subseteq Stored
    BY <1>5, MarkedByMover
  <2>3. ASSUME NEW d \in dates[r]
        PROVE  \E o \in Offered : Contract!Backs(o, span[r].client, d)
    <3>1. fetched[r] # {}
      BY <2>2, <2>3 DEF On
    <3>2. Contract!Backs(Supply(r), span[r].client, d)
      BY <2>2, <2>3, <3>1, OfferedBy DEF Contract!Backs, Contract!On, On
    <3>3. QED
      BY <3>1, <3>2, OfferedBy
  <2>4. Contract!Mark(span[r].client, dates[r])
    <3>1. UNCHANGED <<Offered, Stored>>
      BY <1>5 DEF MarkDatesAsSynced, local, Stored, Offered, Supply, Supplied
    <3>2. syncLogs' = syncLogs \cup ({span[r].client} \X dates[r])
      BY <1>5 DEF MarkDatesAsSynced
    <3>3. QED
      BY <2>3, <3>1, <3>2 DEF Contract!Mark
  <2>5. QED
    BY <2>1, <2>4 DEF Contract!Next
<1>6. CASE Crash \/ UNCHANGED vars
  BY <1>6, ContractStutter DEF Crash, vars, local, tables
<1>7. ASSUME NEW r \in Requests, Step(r), ~FetchAccountState(r), ~MarkDatesAsSynced(r),
             ~ \E p \in Positions : CreateHolding(r, p),
             ~ \E m \in Movements : CreateTransaction(r, m)
      PROVE  UNCHANGED Contract!vars
  BY <1>7, ContractStutter DEF Step, GetDatesToSync, FetchNothing, NextAsset,
     AllAssetsStored, GetCategory, CreateCategory, CreateAsset, AssetStored,
     Respond, CallFails, local, tables
<1>8. QED
  BY <1>1, <1>2, <1>3, <1>4, <1>5, <1>6, <1>7 DEF Next

\* Synchronisation keeps its contract: rows only from delivered states, marks
\* only for days whose delivered data is stored, nothing ever removed.
THEOREM SyncImplementsContract == Spec => ImplementsContract
<1>1. Init => Contract!Init
  BY DEF Init, Contract!Init, Stored, Offered, Supplied
<1>2. QED
  BY <1>1, ContractStep, Invariance, PTL DEF Spec, ImplementsContract, Contract!Spec

-----------------------------------------------------------------------------
(***************************************************************************)
(* A request inserts a transaction at most once, whatever fails, however   *)
(* requests overlap: its rows are counted by the requests that have the    *)
(* insert behind them.  Only CreateTransaction adds a row, and with the    *)
(* row the request joins that set; no step leaves it.                      *)
(***************************************************************************)
\* What the step of a request does to the local state of the others: nothing.
Untouched(q) ==
  /\ pc'[q] = pc[q] \/ pc'[q] = "failed"
  /\ asset'[q] = asset[q] /\ toSync'[q] = toSync[q] /\ fetched'[q] = fetched[q]
  /\ todo'[q] = todo[q] /\ pending'[q] = pending[q]

\* The part of InsertInv about one request.
BodyInv(q) ==
  /\ pc[q] \in InBody => asset[q] \notin todo[q]
  /\ pc[q] = "store" => pending[q] \subseteq Due(q)

\* Nobody has inserted anything at first.
LEMMA InsertInit == Init => InsertInv
  <1> SUFFICES ASSUME Init PROVE InsertInv
    OBVIOUS
  <1>1. \A m \in Movements : InsertedBy(m) = {}
    BY DEF Init, InsertedBy, Due
  <1>2. QED
    BY <1>1, FS_EmptySet DEF Init, InsertInv, InBody

\* Whoever a step leaves alone stays counted, and keeps its part of InsertInv.
LEMMA UntouchedStays ==
  ASSUME NEW q \in Requests, Untouched(q), NEW m \in Movements
  PROVE  q \in InsertedBy(m) => q \in InsertedBy(m)'
  BY DEF Untouched, InsertedBy, Due, Ahead, InBody

\* A request a step leaves alone keeps what its place in the loop says of it.
LEMMA UntouchedBody ==
  ASSUME NEW q \in Requests, Untouched(q), BodyInv(q)
  PROVE  BodyInv(q)'
  BY DEF Untouched, BodyInv, Due, InBody

\* Steps that neither add rows nor take an insert up: the set only grows.
LEMMA MoverStays ==
  ASSUME TypeOK, NEW r \in Requests, RequestInv(r), InsertInv,
         \/ \E s \in Span : SyncAccount(r, s)
         \/ Step(r) /\ ~ \E n \in Movements : CreateTransaction(r, n)
  PROVE  /\ \A m \in Movements : r \in InsertedBy(m) => r \in InsertedBy(m)'
         /\ pc'[r] \in InBody => asset'[r] \notin todo'[r]
         /\ pc'[r] = "store" => pending'[r] \subseteq Due(r)'
  <1> USE DEF InsertInv, InsertedBy, Due, Ahead, InBody, At, Goto, Committed
  <1>1. ASSUME NEW s \in Span, SyncAccount(r, s)
        PROVE  /\ \A m \in Movements : r \in InsertedBy(m) => r \in InsertedBy(m)'
               /\ pc'[r] \notin InBody
    BY <1>1 DEF SyncAccount, TypeOK
  <1>2. CASE GetDatesToSync(r)
    BY <1>2 DEF GetDatesToSync, TypeOK, RequestInv, LocalsInv
  <1>3. CASE FetchAccountState(r)
    BY <1>3 DEF FetchAccountState, TypeOK, RequestInv, LocalsInv
  <1>4. CASE NextAsset(r)
    BY <1>4 DEF NextAsset, TypeOK
  <1>5. CASE AllAssetsStored(r) \/ FetchNothing(r) \/ Respond(r) \/ CallFails(r)
             \/ MarkDatesAsSynced(r)
    BY <1>5 DEF AllAssetsStored, FetchNothing, Respond, CallFails, MarkDatesAsSynced,
                TypeOK, local
  <1>6. CASE GetCategory(r) \/ CreateCategory(r)
    BY <1>6 DEF GetCategory, CreateCategory, TypeOK, local
  <1>7. CASE CreateAsset(r)
    BY <1>7 DEF CreateAsset, TypeOK, Filtered
  <1>8. ASSUME NEW p \in Positions, CreateHolding(r, p)
        PROVE  /\ \A m \in Movements : r \in InsertedBy(m) => r \in InsertedBy(m)'
               /\ pc'[r] \in InBody => asset'[r] \notin todo'[r]
               /\ pc'[r] = "store" => pending'[r] \subseteq Due(r)'
    BY <1>8 DEF CreateHolding, TypeOK
  <1>9. CASE AssetStored(r)
    BY <1>9 DEF AssetStored, TypeOK
  <1>10. QED
    BY <1>1, <1>2, <1>3, <1>4, <1>5, <1>6, <1>7, <1>8, <1>9 DEF Step

\* The steps of a request leave all the others untouched.
LEMMA OthersUntouched ==
  ASSUME TypeOK, NEW r \in Requests, NEW q \in Requests \ {r},
         (\E s \in Span : SyncAccount(r, s)) \/ Step(r)
  PROVE  Untouched(q)
  <1> USE DEF TypeOK, Untouched, Goto, Committed
  <1>1. ASSUME NEW s \in Span, SyncAccount(r, s) PROVE Untouched(q)
    BY <1>1 DEF SyncAccount
  <1>2. CASE Step(r)
    BY <1>2 DEF Step, GetDatesToSync, FetchAccountState, FetchNothing, NextAsset,
       AllAssetsStored, GetCategory, CreateCategory, CreateAsset, CreateHolding,
       CreateTransaction, AssetStored, MarkDatesAsSynced, Respond, CallFails, local
  <1>3. QED
    BY <1>1, <1>2

\* An insert adds one row, and its request to those that have it behind them.
LEMMA InsertCounts ==
  ASSUME IInv, InsertInv, NEW r \in Requests, NEW n \in Movements,
         CreateTransaction(r, n)
  PROVE  /\ transactions' = [transactions EXCEPT ![n] = @ + 1]
         /\ r \notin InsertedBy(n) /\ r \in InsertedBy(n)'
         /\ \A m \in Movements : r \in InsertedBy(m) => r \in InsertedBy(m)'
         /\ pc'[r] \in InBody => asset'[r] \notin todo'[r]
         /\ pc'[r] = "store" => pending'[r] \subseteq Due(r)'
  <1>1. TypeOK /\ ReferencesInv(r)
    BY DEF IInv, RequestInv
  <1>2. /\ pc[r] = "store" /\ n \in pending[r] /\ n \in Due(r)
        /\ asset[r] \notin todo[r] /\ n.asset = asset[r]
    BY <1>1 DEF CreateTransaction, At, InsertInv, InBody, ReferencesInv
  <1>3. /\ pc'[r] \in {"store", "failed"}
        /\ pending'[r] = pending[r] \ {n}
        /\ UNCHANGED <<span, toSync, fetched, todo, asset>>
        /\ transactions' = [transactions EXCEPT ![n] = @ + 1]
    BY <1>1 DEF CreateTransaction, Committed, Goto, TypeOK
  <1>4. Due(r)' = Due(r)
    BY <1>3 DEF Due
  <1>5. QED
    BY <1>2, <1>3, <1>4 DEF InsertedBy, Ahead, InBody, InsertInv

\* Counting more requests can only help.
LEMMA CountGrows ==
  ASSUME IsFiniteSet(Requests), NEW m \in Movements,
         \A q \in InsertedBy(m) : q \in InsertedBy(m)'
  PROVE  /\ IsFiniteSet(InsertedBy(m)) /\ IsFiniteSet(InsertedBy(m)')
         /\ Cardinality(InsertedBy(m)) \in Nat /\ Cardinality(InsertedBy(m)') \in Nat
         /\ Cardinality(InsertedBy(m)) <= Cardinality(InsertedBy(m)')
  <1>1. InsertedBy(m) \in SUBSET Requests /\ InsertedBy(m)' \in SUBSET Requests
    BY DEF InsertedBy
  <1>2. IsFiniteSet(InsertedBy(m)) /\ IsFiniteSet(InsertedBy(m)')
    BY <1>1, FS_Subset
  <1>3. InsertedBy(m) \in SUBSET (InsertedBy(m)')
    OBVIOUS
  <1>4. QED
    BY <1>2, <1>3, FS_Subset, FS_CardinalityType

\* Every step keeps the count of rows within the requests that inserted them.
LEMMA InsertStep ==
  ASSUME IsFiniteSet(Requests), IInv, InsertInv, [Next]_vars
  PROVE  InsertInv'
  <1>1. TypeOK /\ \A q \in Requests : RequestInv(q)
    BY DEF IInv
  <1>2. CASE UNCHANGED vars
    BY <1>2 DEF vars, local, tables, InsertInv, InsertedBy, Ahead, Due
  <1>3. CASE Crash
    <2>1. \A q \in Requests : Untouched(q)
      BY <1>1, <1>3 DEF Crash, Untouched, local, TypeOK
    <2>2. transactions' = transactions
      BY <1>3 DEF Crash, tables
    <2>3. ASSUME NEW m \in Movements PROVE transactions'[m] <= Cardinality(InsertedBy(m)')
      <3>1. \A q \in InsertedBy(m) : q \in InsertedBy(m)'
        BY <2>1, UntouchedStays DEF InsertedBy
      <3>2. transactions[m] <= Cardinality(InsertedBy(m)) /\ transactions[m] \in Nat
        BY <1>1 DEF InsertInv, TypeOK
      <3>3. QED
        BY <2>2, <3>1, <3>2, CountGrows
    <2>4. ASSUME NEW q \in Requests PROVE BodyInv(q)'
      BY <2>1, UntouchedBody DEF InsertInv, BodyInv
    <2>5. QED
      BY <2>3, <2>4 DEF InsertInv, BodyInv
  <1>4. ASSUME NEW r \in Requests, (\E s \in Span : SyncAccount(r, s)) \/ Step(r),
               ~ \E n \in Movements : CreateTransaction(r, n)
        PROVE  InsertInv'
    <2>1. \A q \in Requests \ {r} : Untouched(q)
      BY <1>1, <1>4, OthersUntouched
    <2>2. transactions' = transactions
      BY <1>4 DEF SyncAccount, Step, GetDatesToSync, FetchAccountState, FetchNothing,
         NextAsset, AllAssetsStored, GetCategory, CreateCategory, CreateAsset,
         CreateHolding, AssetStored, MarkDatesAsSynced, Respond, CallFails, tables
    <2>3. /\ \A m \in Movements : r \in InsertedBy(m) => r \in InsertedBy(m)'
          /\ pc'[r] \in InBody => asset'[r] \notin todo'[r]
          /\ pc'[r] = "store" => pending'[r] \subseteq Due(r)'
      BY <1>1, <1>4, MoverStays
    <2>4. ASSUME NEW m \in Movements PROVE transactions'[m] <= Cardinality(InsertedBy(m)')
      <3>1. \A q \in InsertedBy(m) : q \in InsertedBy(m)'
        BY <2>1, <2>3, UntouchedStays DEF InsertedBy
      <3>2. transactions[m] <= Cardinality(InsertedBy(m)) /\ transactions[m] \in Nat
        BY <1>1 DEF InsertInv, TypeOK
      <3>3. QED
        BY <2>2, <3>1, <3>2, CountGrows
    <2>5. ASSUME NEW q \in Requests PROVE BodyInv(q)'
      <3>1. CASE q = r
        BY <2>3, <3>1 DEF BodyInv
      <3>2. CASE q # r
        BY <2>1, <3>2, UntouchedBody DEF InsertInv, BodyInv
      <3>3. QED
        BY <3>1, <3>2
    <2>6. QED
      BY <2>4, <2>5 DEF InsertInv, BodyInv
  <1>5. ASSUME NEW r \in Requests, NEW n \in Movements, CreateTransaction(r, n)
        PROVE  InsertInv'
    <2>1. \A q \in Requests \ {r} : Untouched(q)
      BY <1>1, <1>5, OthersUntouched DEF Step
    <2>2. /\ transactions' = [transactions EXCEPT ![n] = @ + 1]
          /\ r \notin InsertedBy(n) /\ r \in InsertedBy(n)'
          /\ \A m \in Movements : r \in InsertedBy(m) => r \in InsertedBy(m)'
          /\ pc'[r] \in InBody => asset'[r] \notin todo'[r]
          /\ pc'[r] = "store" => pending'[r] \subseteq Due(r)'
      BY <1>5, InsertCounts
    <2>3. ASSUME NEW m \in Movements PROVE transactions'[m] <= Cardinality(InsertedBy(m)')
      <3>1. \A q \in InsertedBy(m) : q \in InsertedBy(m)'
        BY <2>1, <2>2, UntouchedStays DEF InsertedBy
      <3>2. transactions[m] <= Cardinality(InsertedBy(m)) /\ transactions[m] \in Nat
        BY <1>1 DEF InsertInv, TypeOK
      <3>3. CASE m # n
        BY <1>1, <2>2, <3>1, <3>2, <3>3, CountGrows DEF TypeOK
      <3>4. CASE m = n
        <4>1. InsertedBy(n) \cup {r} \in SUBSET (InsertedBy(n)')
          BY <2>2, <3>1, <3>4
        <4>2. Cardinality(InsertedBy(n) \cup {r}) = Cardinality(InsertedBy(n)) + 1
          BY <2>2, <3>1, <3>4, CountGrows, FS_AddElement
        <4>3. Cardinality(InsertedBy(n) \cup {r}) <= Cardinality(InsertedBy(n)')
          BY <3>1, <3>4, <4>1, CountGrows, FS_Subset
        <4>4. transactions'[n] = transactions[n] + 1
          BY <1>1, <2>2 DEF TypeOK
        <4>5. QED
          BY <3>1, <3>2, <3>4, <4>2, <4>3, <4>4, CountGrows
      <3>5. QED
        BY <3>3, <3>4
    <2>4. ASSUME NEW q \in Requests PROVE BodyInv(q)'
      <3>1. CASE q = r
        BY <2>2, <3>1 DEF BodyInv
      <3>2. CASE q # r
        BY <2>1, <3>2, UntouchedBody DEF InsertInv, BodyInv
      <3>3. QED
        BY <3>1, <3>2
    <2>5. QED
      BY <2>3, <2>4 DEF InsertInv, BodyInv
  <1>6. QED
    BY <1>2, <1>3, <1>4, <1>5 DEF Next

\* The rows of a transaction never outnumber the requests that fetched it while
\* its day was missing from sync_logs: only overlapping or retried requests can
\* duplicate it, a single request never does.
THEOREM OneInsertPerRequest ==
  ASSUME IsFiniteSet(Requests)
  PROVE  Spec => []InsertedOncePerRequest
  <1>1. IInv /\ InsertInv => InsertedOncePerRequest
    <2> SUFFICES ASSUME IInv, InsertInv, NEW m \in Movements
                 PROVE  transactions[m] <= Cardinality({r \in Requests : m \in Due(r)})
      BY DEF InsertedOncePerRequest
    <2> DEFINE D == {r \in Requests : m \in Due(r)}
    <2>1. IsFiniteSet(D) /\ InsertedBy(m) \in SUBSET D
      BY FS_Subset DEF InsertedBy
    <2>2. Cardinality(InsertedBy(m)) <= Cardinality(D)
      BY <2>1, FS_Subset
    <2>3. /\ Cardinality(InsertedBy(m)) \in Nat /\ Cardinality(D) \in Nat
          /\ transactions[m] \in Nat /\ transactions[m] <= Cardinality(InsertedBy(m))
      BY <2>1, FS_Subset, FS_CardinalityType DEF IInv, TypeOK, InsertInv
    <2>4. QED
      BY <2>2, <2>3
  <1>2. InsertInv /\ IInv /\ [Next]_vars => InsertInv'
    BY InsertStep
  <1>3. QED
    BY <1>1, <1>2, InsertInit, Invariance, IInvStep, PTL DEF Spec
-----------------------------------------------------------------------------
(***************************************************************************)
(* Requests one after another.  The days a request is about to fetch are   *)
(* not marked, and everything an earlier request was given on a missing    *)
(* day is: so the two were never given the same item.                      *)
(***************************************************************************)

\* What a request was given belongs to its own account.
LEMMA GivenIsOwn ==
  ASSUME NEW r \in Requests, RequestInv(r), NEW i \in fetched[r]
  PROVE  i.client = span[r].client
  BY DEF RequestInv, LocalsInv, Deliveries, Merge, HoldingsOn, MovementsIn

\* Without faults, all the steps but the fetch leave what is due as it is.
LEMMA DueKept ==
  ASSUME TypeOK, NEW r \in Requests, RequestInv(r),
         (\E s \in Span : SyncAccount(r, s)) \/ Step(r), ~FetchAccountState(r)
  PROVE  Due(r)' = Due(r)
  <1>1. ASSUME NEW s \in Span, SyncAccount(r, s) PROVE Due(r)' = Due(r)
    BY <1>1 DEF SyncAccount, Due
  <1>2. CASE GetDatesToSync(r)
    BY <1>2 DEF GetDatesToSync, At, RequestInv, LocalsInv, Due
  <1>3. CASE Step(r) /\ ~GetDatesToSync(r)
    BY <1>3 DEF Step, FetchNothing, NextAsset, AllAssetsStored, GetCategory, CreateCategory,
       CreateAsset, CreateHolding, CreateTransaction, AssetStored, MarkDatesAsSynced,
       Respond, CallFails, local, Due
  <1>4. QED
    BY <1>1, <1>2, <1>3

\* Without faults, a step takes its request from a place in flight, or to one,
\* and to no failure.
LEMMA FaultlessMove ==
  ASSUME TypeOK, ~Faults, NEW r \in Requests,
         (\E s \in Span : SyncAccount(r, s)) \/ Step(r)
  PROVE  /\ pc'[r] # "failed" /\ \A q \in Requests \ {r} : pc'[q] = pc[q]
         /\ Step(r) => pc[r] \in InFlight
         /\ pc'[r] = "fetch" => GetDatesToSync(r)
  <1> USE DEF TypeOK, InFlight, At, Goto, Committed
  <1>1. ASSUME NEW s \in Span, SyncAccount(r, s)
        PROVE  pc'[r] = "dates" /\ \A q \in Requests \ {r} : pc'[q] = pc[q]
    BY <1>1 DEF SyncAccount
  <1>2. CASE Step(r)
    BY <1>2 DEF Step, GetDatesToSync, FetchAccountState, FetchNothing, NextAsset,
       AllAssetsStored, GetCategory, CreateCategory, CreateAsset, CreateHolding,
       CreateTransaction, AssetStored, MarkDatesAsSynced, Respond, CallFails
  <1>3. ASSUME NEW s \in Span, SyncAccount(r, s)
        PROVE  ~Step(r)
    BY <1>3 DEF SyncAccount, Step, GetDatesToSync, FetchAccountState, FetchNothing, NextAsset,
       AllAssetsStored, GetCategory, CreateCategory, CreateAsset, CreateHolding,
       CreateTransaction, AssetStored, MarkDatesAsSynced, Respond, CallFails
  <1>4. QED
    BY <1>1, <1>2, <1>3

\* Nothing was given yet, and nobody is in flight.
LEMMA SerialInit == Init => SerialInv
  BY DEF Init, SerialInv, InFlight, Due

\* Every step of requests in series keeps what they are given apart.
LEMMA SerialStep ==
  ASSUME Serial, ~Faults, IInv, SerialInv, [Next]_vars
  PROVE  SerialInv'
  <1>1. TypeOK /\ \A q \in Requests : RequestInv(q)
    BY DEF IInv
  <1>2. CASE UNCHANGED vars
    BY <1>2 DEF vars, local, tables, SerialInv, Due
  <1>3. ASSUME NEW r \in Requests, (\E s \in Span : SyncAccount(r, s)) \/ Step(r)
        PROVE  SerialInv'
    <2>1. /\ pc'[r] # "failed" /\ \A q \in Requests \ {r} : pc'[q] = pc[q]
          /\ Step(r) => pc[r] \in InFlight
          /\ pc'[r] = "fetch" => GetDatesToSync(r)
      BY <1>1, <1>3, FaultlessMove
    <2>2. \A q \in Requests \ {r} : Untouched(q)
      BY <1>1, <1>3, OthersUntouched
    <2>3. \A q \in Requests \ {r} : pc[q] \notin InFlight
      <3>1. ASSUME NEW s \in Span, SyncAccount(r, s), NEW q \in Requests PROVE pc[q] \notin InFlight
        BY <3>1 DEF SyncAccount
      <3>2. CASE Step(r)
        BY <2>1, <3>2 DEF SerialInv
      <3>3. QED
        BY <1>3, <3>1, <3>2
    <2>4. \A q, p \in Requests : {pc'[q], pc'[p]} \subseteq InFlight => q = p
      BY <2>1, <2>3
    <2>5. ASSUME NEW q \in Requests, pc'[q] = "fetch", NEW d \in toSync'[q]
          PROVE  <<span'[q].client, d>> \notin syncLogs'
      <3>1. q = r
        BY <2>1, <2>3, <2>5 DEF InFlight
      <3>2. QED
        BY <1>1, <2>1, <2>5, <3>1 DEF GetDatesToSync, DatesToSync, SyncedDates, TypeOK, tables,
           RequestInv, LocalsInv, At, Span
    <2>6. \A q \in Requests \ {r} : Due(q)' = Due(q)
      BY <2>2 DEF Untouched, Due
    \* The one step that gives a request anything.
    <2>7. ASSUME FetchAccountState(r), NEW q \in Requests \ {r}, NEW i \in Due(r)' \cap Due(q)
          PROVE  FALSE
      <3>1. pc[q] \in {"idle", "done"}
        BY <1>1, <2>3 DEF SerialInv, TypeOK, Ended
      <3>2. pc[q] = "done" /\ <<span[q].client, i.day>> \in syncLogs
        BY <1>1, <2>7, <3>1 DEF RequestInv, LocalsInv, ProgressInv, Due
      <3>3. PICK state \in Deliveries(span[r]) : fetched' = [fetched EXCEPT ![r] = state]
        BY <2>7 DEF FetchAccountState
      <3>4. i \in state /\ i.day \in toSync[r] /\ pc[r] = "fetch"
        BY <1>1, <2>7, <3>3 DEF FetchAccountState, At, Due, TypeOK
      <3>5. i.client = span[r].client
        BY <3>3, <3>4 DEF Deliveries, Merge, HoldingsOn, MovementsIn
      <3>6. i.client = span[q].client
        BY <1>1, <2>7, GivenIsOwn DEF Due
      <3>7. QED
        BY <3>2, <3>4, <3>5, <3>6 DEF SerialInv
    <2>8. \A q, p \in Requests : q # p => Due(q)' \cap Due(p)' = {}
      <3>1. CASE FetchAccountState(r)
        BY <2>6, <2>7, <3>1 DEF SerialInv
      <3>2. CASE ~FetchAccountState(r)
        <4>1. Due(r)' = Due(r)
          BY <1>1, <1>3, <3>2, DueKept
        <4>2. QED
          BY <2>6, <4>1 DEF SerialInv
      <3>3. QED
        BY <3>1, <3>2
    <2>9. \A q \in Requests : pc'[q] # "failed"
      BY <2>1 DEF SerialInv
    <2>10. QED
      BY <2>4, <2>5, <2>8, <2>9 DEF SerialInv
  <1>4. QED
    BY <1>2, <1>3 DEF Next, Crash

\* As long as requests run one after another and no call fails, a transaction
\* has at most one row, however their ranges overlap and whatever the broker
\* leaves out: the log of synced days is enough to keep a plain insert unique.
THEOREM SerialSyncsDoNotDuplicate ==
  ASSUME Serial, ~Faults, IsFiniteSet(Requests)
  PROVE  Spec => []NoDuplicateTransactions
  <1>1. ASSUME IInv, SerialInv, InsertedOncePerRequest
        PROVE  NoDuplicateTransactions
    <2> SUFFICES ASSUME NEW m \in Movements PROVE transactions[m] <= 1
      BY DEF NoDuplicateTransactions
    <2> DEFINE D == {r \in Requests : m \in Due(r)}
    <2>1. transactions[m] <= Cardinality(D) /\ transactions[m] \in Nat
      BY <1>1 DEF InsertedOncePerRequest, IInv, TypeOK
    <2>2. CASE D = {}
      BY <2>1, <2>2, FS_EmptySet
    <2>3. CASE D # {}
      <3>1. PICK r : r \in D
        BY <2>3
      <3>2. D = {r}
        BY <1>1, <3>1 DEF SerialInv
      <3>3. Cardinality(D) = 1
        BY <3>2, FS_Singleton
      <3>4. QED
        BY <2>1, <3>3
    <2>4. QED
      BY <2>2, <2>3
  <1>2. SerialInv /\ IInv /\ [Next]_vars => SerialInv'
    BY SerialStep
  <1>3. QED
    BY <1>1, <1>2, SerialInit, OneInsertPerRequest, Invariance, PTL DEF Spec
=============================================================================
