----------------------- MODULE ReferenceVariablesProofs -----------------------
(***************************************************************************)
(* Proofs about ReferenceVariables, for any number of reports and lookups, *)
(* any answers and any outcome of the unsynchronised writes: the inductive *)
(* invariant, the safety properties of the goroutines and the cache, and   *)
(* what is computed from the valuations: their filling and variations.     *)
(***************************************************************************)
EXTENDS ReferenceVariables, NumberProofs, TLAPS

USE VariablesAssumption

\* What fetches there are, by their names.
LEMMA FetchNames ==
  /\ \A r \in Reports : Both(r) \subseteq Fetches
  /\ \A r \in Reports : \A f \in Both(r) : f[1] = r /\ f[2] # "lookup" /\ f \in Rates \cup Indices
  /\ \A f \in Fetches : f[2] # "lookup" => f[1] \in Reports /\ f \in Both(f[1])
  /\ \A f \in Rates : f = <<f[1], "A3500">> /\ f[1] \in Reports /\ f \in Fetches
  /\ \A f \in Indices : f = <<f[1], "inflation">> /\ f[1] \in Reports /\ f \in Fetches
  BY DEF Fetches, Rates, Indices, Both

\* No fetch is made for two reports.
LEMMA OwnFetches == \A r, s \in Reports : r # s => Both(r) \cap Both(s) = {}
  BY DEF Both

\* The initial state.
LEMMA InitInv == Init => IInv
<1> SUFFICES ASSUME Init PROVE IInv
  OBVIOUS
<1>1. TypeOK
  BY DEF Init, TypeOK
<1>2. \A r \in Reports : ChannelInv(r) /\ MapInv(r)
  BY FetchNames DEF Init, ChannelInv, MapInv, Both
<1>3. CacheInv
  BY DEF Init, CacheInv
<1>4. QED
  BY <1>1, <1>2, <1>3 DEF Init, IInv, OutageIsSurvived

-----------------------------------------------------------------------------
\* What the writes to a report's map change.
LEMMA StoreEffect ==
  ASSUME TypeOK, NEW f \in Fetches, Store(f)
  PROVE  /\ f[1] \in Reports /\ f[2] # "lookup" /\ f \in Both(f[1])
         /\ at[f] \in {"store", "storing", "vary", "varying"}
         /\ \E to \in {"storing", "vary", "varying", "ended"} : at' = [at EXCEPT ![f] = to]
         /\ raced' = raced \/ raced' = [raced EXCEPT ![f[1]] = TRUE]
         /\ result' = result \/ \E name \in Names : result' = [result EXCEPT ![f[1]] = @ \cup {name}]
         /\ up' = up \/ (up' \in BOOLEAN /\ raced'[f[1]])
         /\ UNCHANGED <<clock, cache, main, window, closed, seen, values, errors, blank>>
<1>1. f[1] \in Reports /\ f[2] # "lookup" /\ f \in Both(f[1])
  <2>1. f \in Rates \/ f \in Indices
    BY DEF Store
  <2>2. CASE f \in Rates
    BY <2>2 DEF Rates, Both
  <2>3. CASE f \in Indices
    BY <2>3 DEF Indices, Both
  <2>4. QED
    BY <2>1, <2>2, <2>3
<1>2. ASSUME NEW from, NEW to \in {"storing", "varying"}, StartWrite(f, from, to)
      PROVE  /\ at[f] = from /\ at' = [at EXCEPT ![f] = to]
             /\ raced' = raced \/ raced' = [raced EXCEPT ![f[1]] = TRUE]
             /\ result' = result
             /\ up' = up \/ (up' \in BOOLEAN /\ raced'[f[1]])
             /\ UNCHANGED <<clock, cache, main, window, closed, seen, values, errors, blank>>
  BY <1>1, <1>2 DEF StartWrite, At, Goto, TypeOK
<1>3. ASSUME NEW from, NEW to, NEW name \in Names, EndWrite(f, from, to, name)
      PROVE  /\ at[f] = from /\ at' = [at EXCEPT ![f] = to]
             /\ raced' = raced
             /\ result' = result \/ result' = [result EXCEPT ![f[1]] = @ \cup {name}]
             /\ up' = up \/ (up' \in BOOLEAN /\ raced'[f[1]])
             /\ UNCHANGED <<clock, cache, main, window, closed, seen, values, errors, blank>>
  BY <1>1, <1>3 DEF EndWrite, At, Goto, TypeOK
<1>4. QED
  <2> USE DEF Names
  <2>1. CASE StartWrite(f, "store", "storing")
    BY <1>1, <1>2, <2>1
  <2>2. CASE StartWrite(f, "vary", "varying")
    BY <1>1, <1>2, <2>2
  <2>3. CASE EndWrite(f, "storing", "vary", "USD A3500")
    BY <1>1, <1>3, <2>3
  <2>4. CASE EndWrite(f, "varying", "ended", "USD A3500 Variacion")
    BY <1>1, <1>3, <2>4
  <2>5. CASE EndWrite(f, "storing", "ended", "Inflacion Mensual")
    BY <1>1, <1>3, <2>5
  <2>6. QED
    BY <2>1, <2>2, <2>3, <2>4, <2>5 DEF Store

\* Every step keeps the types.
LEMMA TypeStep ==
  ASSUME TypeOK, [Next]_vars
  PROVE  TypeOK'
<1> USE DEF TypeOK, Stored
<1>0. TypeOK
  OBVIOUS
<1>1. ASSUME NEW r \in Reports, NEW w \in Windows, GetReferenceVariables(r, w)
      PROVE  TypeOK'
  BY <1>0, FetchNames, <1>1 DEF GetReferenceVariables, fetchVars, reportVars
<1>2. ASSUME NEW f \in Fetches, Lookup(f)
      PROVE  TypeOK'
  BY <1>0, FetchNames, <1>2 DEF Lookup, Goto, At, fetchVars, reportVars
<1>3a. ASSUME NEW f \in Fetches, ReadClock(f)
      PROVE  TypeOK'
  BY <1>0, FetchNames, <1>3a DEF ReadClock, Goto, At, fetchVars, reportVars
<1>3. ASSUME NEW f \in Fetches, GetCached(f)
      PROVE  TypeOK'
  BY <1>0, FetchNames, <1>3 DEF GetCached, Goto, At, Serving, fetchVars, reportVars
<1>4. ASSUME NEW f \in Fetches, GetVariables(f)
      PROVE  TypeOK'
  BY <1>0, FetchNames, <1>4 DEF GetVariables, Goto, At, fetchVars, reportVars
<1>5. ASSUME NEW f \in Fetches, ReturnLookup(f)
      PROVE  TypeOK'
  BY <1>0, FetchNames, <1>5 DEF ReturnLookup, Goto, At, fetchVars, reportVars
<1>6. ASSUME NEW f \in Fetches, CallFails(f)
      PROVE  TypeOK'
  BY <1>0, FetchNames, <1>6 DEF CallFails, Fail, Goto, fetchVars, reportVars
<1>7. ASSUME NEW f \in Fetches, NEW q \in Quotes, GetValues(f, q)
      PROVE  TypeOK'
  BY <1>0, FetchNames, <1>7 DEF GetValues, Goto, At, fetchVars, reportVars
<1>8. ASSUME NEW f \in Fetches, GetNothing(f)
      PROVE  TypeOK'
  BY <1>0, FetchNames, <1>8 DEF GetNothing, At, fetchVars, reportVars
<1>9. ASSUME NEW f \in Fetches, Store(f)
      PROVE  TypeOK'
  <2>1. PICK to \in {"storing", "vary", "varying", "ended"} : at' = [at EXCEPT ![f] = to]
    BY <1>0, StoreEffect, <1>9
  <2>2. at' \in [Fetches -> {"idle", "list", "get", "ask", "values", "store", "storing", "vary",
                            "varying", "sending", "ended", "failed"}]
    BY <2>1
  <2>3. result' \in [Reports -> SUBSET Names]
    <3>1. result \in [Reports -> SUBSET Names]
      OBVIOUS
    <3> HIDE DEF TypeOK
    <3>2. CASE result' = result
      BY <3>1, <3>2
    <3>3. CASE result' # result
      <4>1. PICK name \in Names : result' = [result EXCEPT ![f[1]] = @ \cup {name}]
        BY <1>0, <1>9, <3>3, StoreEffect
      <4>2. QED
        BY <3>1, <4>1
    <3>4. QED
      BY <3>2, <3>3
  <2>4. raced' \in [Reports -> BOOLEAN]
    BY <1>0, StoreEffect, <1>9
  <2>5. QED
    BY <2>2, <2>3, <2>4, StoreEffect, <1>9
<1>10. ASSUME NEW r \in Reports, NEW f \in Both(r), ReceiveError(r, f)
      PROVE  TypeOK'
  BY <1>0, FetchNames, <1>10 DEF ReceiveError, Goto, fetchVars, reportVars
<1>11. ASSUME NEW r \in Reports, CloseErrChan(r)
      PROVE  TypeOK'
  BY <1>0, FetchNames, <1>11 DEF CloseErrChan, fetchVars, reportVars
<1>12. ASSUME NEW r \in Reports, ReceiveClose(r)
      PROVE  TypeOK'
  BY <1>0, FetchNames, <1>12 DEF ReceiveClose, fetchVars, reportVars
<1>13. CASE Tick
  BY <1>0, <1>13 DEF Tick, fetchVars, reportVars
<1>14. CASE UNCHANGED vars
  BY <1>0, <1>14 DEF vars, fetchVars, reportVars
<1>15. QED
  BY <1>1, <1>2, <1>3a, <1>3, <1>4, <1>5, <1>6, <1>7, <1>8, <1>9, <1>10, <1>11, <1>12, <1>13, <1>14 DEF Next, FetchStep, ReportStep

\* Every step keeps the process up, or has one of its three reasons.
LEMMA OutageStep ==
  ASSUME TypeOK, OutageIsSurvived, [Next]_vars
  PROVE  OutageIsSurvived'
<1> USE DEF TypeOK, OutageIsSurvived
<1>0. TypeOK /\ OutageIsSurvived
  OBVIOUS
<1>1. ASSUME NEW r \in Reports, NEW w \in Windows, GetReferenceVariables(r, w)
      PROVE  OutageIsSurvived'
  BY <1>0, FetchNames, <1>1 DEF GetReferenceVariables, fetchVars, reportVars
<1>2. ASSUME NEW f \in Fetches, Lookup(f)
      PROVE  OutageIsSurvived'
  BY <1>0, FetchNames, <1>2 DEF Lookup, Goto, At, fetchVars, reportVars
<1>3a. ASSUME NEW f \in Fetches, ReadClock(f)
      PROVE  OutageIsSurvived'
  BY <1>0, FetchNames, <1>3a DEF ReadClock, Goto, At, fetchVars, reportVars
<1>3. ASSUME NEW f \in Fetches, GetCached(f)
      PROVE  OutageIsSurvived'
  BY <1>0, FetchNames, <1>3 DEF GetCached, Goto, At, Serving, fetchVars, reportVars
<1>4. ASSUME NEW f \in Fetches, GetVariables(f)
      PROVE  OutageIsSurvived'
  BY <1>0, FetchNames, <1>4 DEF GetVariables, Goto, At, fetchVars, reportVars
<1>5. ASSUME NEW f \in Fetches, ReturnLookup(f)
      PROVE  OutageIsSurvived'
  BY <1>0, FetchNames, <1>5 DEF ReturnLookup, Goto, At, fetchVars, reportVars
<1>6. ASSUME NEW f \in Fetches, CallFails(f)
      PROVE  OutageIsSurvived'
  BY <1>0, FetchNames, <1>6 DEF CallFails, Fail, Goto, fetchVars, reportVars
<1>7. ASSUME NEW f \in Fetches, NEW q \in Quotes, GetValues(f, q)
      PROVE  OutageIsSurvived'
  BY <1>0, FetchNames, <1>7 DEF GetValues, Goto, At, fetchVars, reportVars
<1>8. ASSUME NEW f \in Fetches, GetNothing(f)
      PROVE  OutageIsSurvived'
  BY <1>0, FetchNames, <1>8 DEF GetNothing, At, fetchVars, reportVars
<1>9. ASSUME NEW f \in Fetches, Store(f)
      PROVE  OutageIsSurvived'
  BY <1>0, StoreEffect, <1>9
<1>10. ASSUME NEW r \in Reports, NEW f \in Both(r), ReceiveError(r, f)
      PROVE  OutageIsSurvived'
  BY <1>0, FetchNames, <1>10 DEF ReceiveError, Goto, fetchVars, reportVars
<1>11. ASSUME NEW r \in Reports, CloseErrChan(r)
      PROVE  OutageIsSurvived'
  BY <1>0, FetchNames, <1>11 DEF CloseErrChan, fetchVars, reportVars
<1>12. ASSUME NEW r \in Reports, ReceiveClose(r)
      PROVE  OutageIsSurvived'
  BY <1>0, FetchNames, <1>12 DEF ReceiveClose, fetchVars, reportVars
<1>13. CASE Tick
  BY <1>0, <1>13 DEF Tick, fetchVars, reportVars
<1>14. CASE UNCHANGED vars
  BY <1>0, <1>14 DEF vars, fetchVars, reportVars
<1>15. QED
  BY <1>1, <1>2, <1>3a, <1>3, <1>4, <1>5, <1>6, <1>7, <1>8, <1>9, <1>10, <1>11, <1>12, <1>13, <1>14 DEF Next, FetchStep, ReportStep

\* Every step keeps what the goroutines' places say of channel and errors.
LEMMA ChannelStep ==
  ASSUME IInv, [Next]_vars
  PROVE  \A s \in Reports : ChannelInv(s)'
<1>0. TypeOK /\ \A s \in Reports : ChannelInv(s)
  BY DEF IInv
<1> SUFFICES ASSUME NEW s \in Reports PROVE ChannelInv(s)'
  OBVIOUS
<1> USE DEF TypeOK, ChannelInv, Both
<1>1. ASSUME NEW r \in Reports, NEW w \in Windows, GetReferenceVariables(r, w)
      PROVE  ChannelInv(s)'
  BY <1>0, FetchNames, <1>1 DEF GetReferenceVariables, fetchVars, reportVars
<1>2. ASSUME NEW f \in Fetches, Lookup(f)
      PROVE  ChannelInv(s)'
  BY <1>0, FetchNames, <1>2 DEF Lookup, Goto, At, fetchVars, reportVars
<1>3a. ASSUME NEW f \in Fetches, ReadClock(f)
      PROVE  ChannelInv(s)'
  BY <1>0, FetchNames, <1>3a DEF ReadClock, Goto, At, fetchVars, reportVars
<1>3. ASSUME NEW f \in Fetches, GetCached(f)
      PROVE  ChannelInv(s)'
  BY <1>0, FetchNames, <1>3 DEF GetCached, Goto, At, Serving, fetchVars, reportVars
<1>4. ASSUME NEW f \in Fetches, GetVariables(f)
      PROVE  ChannelInv(s)'
  <2>1. at[f] = "ask" /\ at' = [at EXCEPT ![f] = "values"] /\ UNCHANGED <<main, closed, errors>>
    BY <1>4 DEF GetVariables, Goto, At, reportVars
  <2>2. QED
    BY <1>0, FetchNames, <2>1
<1>5. ASSUME NEW f \in Fetches, ReturnLookup(f)
      PROVE  ChannelInv(s)'
  BY <1>0, FetchNames, <1>5 DEF ReturnLookup, Goto, At, fetchVars, reportVars
<1>6. ASSUME NEW f \in Fetches, CallFails(f)
      PROVE  ChannelInv(s)'
  BY <1>0, FetchNames, <1>6 DEF CallFails, Fail, Goto, fetchVars, reportVars
<1>7. ASSUME NEW f \in Fetches, NEW q \in Quotes, GetValues(f, q)
      PROVE  ChannelInv(s)'
  BY <1>0, FetchNames, <1>7 DEF GetValues, Goto, At, fetchVars, reportVars
<1>8. ASSUME NEW f \in Fetches, GetNothing(f)
      PROVE  ChannelInv(s)'
  BY <1>0, FetchNames, <1>8 DEF GetNothing, At, fetchVars, reportVars
<1>9. ASSUME NEW f \in Fetches, Store(f)
      PROVE  ChannelInv(s)'
  <2>0. f[1] \in Reports /\ f \in Both(f[1]) /\ at[f] \in {"store", "storing", "vary", "varying"}
    BY <1>0, StoreEffect, <1>9
  <2>1. f \notin errors /\ ~closed[f[1]] /\ main[f[1]] # "idle"
    <3>1. PICK r \in Reports : r = f[1] /\ f \in Both(r)
      BY <2>0
    <3>2. ChannelInv(r)
      BY <1>0
    <3> QED
      BY <2>0, <3>1, <3>2
  <2>2. PICK to \in {"storing", "vary", "varying", "ended"} : at' = [at EXCEPT ![f] = to]
    BY <1>0, StoreEffect, <1>9
  <2>3. UNCHANGED <<main, closed, errors>>
    BY <1>0, StoreEffect, <1>9
  <2>4. f \in Both(s) => s = f[1]
    BY <2>0, FetchNames
  <2>5. QED
    BY <1>0, <2>0, <2>1, <2>2, <2>3, <2>4, FetchNames
<1>10. ASSUME NEW r \in Reports, NEW f \in Both(r), ReceiveError(r, f)
      PROVE  ChannelInv(s)'
  <2>1. CASE r = s
    BY <1>0, FetchNames, <1>10, <2>1 DEF ReceiveError, Goto
  <2>2. CASE r # s
    BY <1>0, FetchNames, OwnFetches, <1>10, <2>2 DEF ReceiveError, Goto
  <2>3. QED
    BY <2>1, <2>2
<1>11. ASSUME NEW r \in Reports, CloseErrChan(r)
      PROVE  ChannelInv(s)'
  BY <1>0, FetchNames, <1>11 DEF CloseErrChan, fetchVars, reportVars
<1>12. ASSUME NEW r \in Reports, ReceiveClose(r)
      PROVE  ChannelInv(s)'
  BY <1>0, FetchNames, <1>12 DEF ReceiveClose, fetchVars, reportVars
<1>13. CASE Tick
  BY <1>0, <1>13 DEF Tick, fetchVars, reportVars
<1>14. CASE UNCHANGED vars
  BY <1>0, <1>14 DEF vars, fetchVars, reportVars
<1>15. QED
  BY <1>1, <1>2, <1>3a, <1>3, <1>4, <1>5, <1>6, <1>7, <1>8, <1>9, <1>10, <1>11, <1>12, <1>13, <1>14 DEF Next, FetchStep, ReportStep

\* Every step keeps what is in the map of a report whose writers did not race.
LEMMA MapStep ==
  ASSUME IInv, [Next]_vars
  PROVE  \A s \in Reports : MapInv(s)'
<1>0. TypeOK /\ \A s \in Reports : ChannelInv(s) /\ MapInv(s)
  BY DEF IInv
<1> SUFFICES ASSUME NEW s \in Reports PROVE MapInv(s)'
  OBVIOUS
<1> DEFINE rate == <<s, "A3500">>  index == <<s, "inflation">>
<1>a. /\ rate \in Rates /\ rate \notin Indices /\ rate \in Fetches
      /\ index \in Indices /\ index \notin Rates /\ index \in Fetches
      /\ rate # index /\ rate \in Both(s) /\ index \in Both(s)
      /\ \A f \in {rate, index} : f[1] = s /\ f[2] # "lookup"
      /\ \A f \in Rates : f[1] \in Reports /\ (f[1] = s <=> f = rate)
      /\ \A f \in Indices : f[1] \in Reports /\ (f[1] = s <=> f = index)
      /\ Rates \subseteq Fetches /\ Indices \subseteq Fetches
      /\ \A f \in Rates : f \notin Indices
  BY DEF Fetches, Rates, Indices, Both
<1>b. MapInv(s) <=>
      (~raced[s] =>
        /\ at[rate] \in {"vary", "varying"} => "USD A3500" \in result[s]
        /\ (at[rate] = "ended" /\ rate \notin errors) =>
             {"USD A3500", "USD A3500 Variacion"} \subseteq result[s]
        /\ (at[index] = "ended" /\ index \notin errors) => "Inflacion Mensual" \in result[s])
  BY DEF MapInv
<1>c. MapInv(s)' <=>
      (~raced'[s] =>
        /\ at'[rate] \in {"vary", "varying"} => "USD A3500" \in result'[s]
        /\ (at'[rate] = "ended" /\ rate \notin errors') =>
             {"USD A3500", "USD A3500 Variacion"} \subseteq result'[s]
        /\ (at'[index] = "ended" /\ index \notin errors') => "Inflacion Mensual" \in result'[s])
  BY DEF MapInv
<1>d. at \in [Fetches -> {"idle", "list", "get", "ask", "values", "store", "storing", "vary",
                           "varying", "sending", "ended", "failed"}] /\ raced \in [Reports -> BOOLEAN]
      /\ result \in [Reports -> SUBSET Names]
  BY <1>0 DEF TypeOK
<1>e. /\ \A f \in {rate, index} : (at[f] = "sending" => f \in errors)
                                   /\ (f \in errors => at[f] \in {"sending", "ended"})
  BY <1>0, <1>a DEF ChannelInv
<1>m. MapInv(s)
  BY <1>0
<1> HIDE DEF rate, index
\* A step that adds nothing to the map, and brings no goroutine past a write.
<1>q. ASSUME result' = result, raced' = raced, errors \subseteq errors',
             \A f \in {rate, index} : at'[f] # at[f] =>
               at'[f] \notin {"vary", "varying"} /\ (at'[f] = "ended" => f \in errors')
      PROVE  MapInv(s)'
  BY <1>b, <1>c, <1>m, <1>q
<1>1. ASSUME NEW r \in Reports, NEW w \in Windows, GetReferenceVariables(r, w)
      PROVE  MapInv(s)'
  BY <1>0, <1>a, <1>d, <1>e, <1>q, <1>1 DEF GetReferenceVariables, fetchVars, reportVars
<1>2. ASSUME NEW f \in Fetches, Lookup(f)
      PROVE  MapInv(s)'
  BY <1>0, <1>a, <1>d, <1>e, <1>q, <1>2 DEF Lookup, Goto, At, fetchVars, reportVars
<1>3a. ASSUME NEW f \in Fetches, ReadClock(f)
      PROVE  MapInv(s)'
  BY <1>0, <1>a, <1>d, <1>e, <1>q, <1>3a DEF ReadClock, Goto, At, fetchVars, reportVars
<1>3. ASSUME NEW f \in Fetches, GetCached(f)
      PROVE  MapInv(s)'
  BY <1>0, <1>a, <1>d, <1>e, <1>q, <1>3 DEF GetCached, Goto, At, Serving, fetchVars, reportVars
<1>4. ASSUME NEW f \in Fetches, GetVariables(f)
      PROVE  MapInv(s)'
  BY <1>0, <1>a, <1>d, <1>e, <1>q, <1>4 DEF GetVariables, Goto, At, fetchVars, reportVars
<1>5. ASSUME NEW f \in Fetches, ReturnLookup(f)
      PROVE  MapInv(s)'
  BY <1>0, <1>a, <1>d, <1>e, <1>q, <1>5 DEF ReturnLookup, Goto, At, fetchVars, reportVars
<1>6. ASSUME NEW f \in Fetches, CallFails(f)
      PROVE  MapInv(s)'
  BY <1>0, <1>a, <1>d, <1>e, <1>q, <1>6 DEF CallFails, Fail, Goto, fetchVars, reportVars
<1>7. ASSUME NEW f \in Fetches, NEW q \in Quotes, GetValues(f, q)
      PROVE  MapInv(s)'
  BY <1>0, <1>a, <1>d, <1>e, <1>q, <1>7 DEF GetValues, Goto, At, fetchVars, reportVars
<1>8. ASSUME NEW f \in Fetches, GetNothing(f)
      PROVE  MapInv(s)'
  BY <1>0, <1>a, <1>d, <1>e, <1>q, <1>8 DEF GetNothing, At, fetchVars, reportVars
<1>9. ASSUME NEW f \in Fetches, Store(f)
      PROVE  MapInv(s)'
  <2>0. /\ f \in Rates \cup Indices /\ f \in Fetches /\ errors' = errors
    BY <1>9, <1>a DEF Store, StartWrite, EndWrite
  <2>1. CASE f[1] # s
    <3>1. at'[rate] = at[rate] /\ at'[index] = at[index]
      BY <1>9, <1>a, <1>d, <2>0, <2>1 DEF Store, StartWrite, EndWrite, At, Goto
    <3>2. raced'[s] = raced[s] /\ result'[s] = result[s]
      BY <1>9, <1>a, <1>d, <2>0, <2>1 DEF Store, StartWrite, EndWrite
    <3>3. QED
      BY <1>b, <1>c, <1>m, <2>0, <3>1, <3>2
  <2>2. CASE f = rate
    <3>1. at'[index] = at[index]
      BY <1>9, <1>a, <1>d, <2>0, <2>2 DEF Store, StartWrite, EndWrite, At, Goto
    <3>2. CASE StartWrite(f, "store", "storing") \/ StartWrite(f, "vary", "varying")
      <4>1. at[f] \in {"store", "vary"} /\ errors' = errors /\ result' = result
        BY <3>2 DEF StartWrite, At
      <4>2. /\ at[f] = "store" => at'[f] = "storing"
            /\ at[f] = "vary" => at'[f] = "varying"
        BY <1>a, <1>d, <2>2, <3>2 DEF StartWrite, At, Goto
      <4>3. ~raced'[s] => ~raced[s]
        BY <1>a, <1>d, <2>2, <3>2 DEF StartWrite
      <4>4. QED
        BY <1>b, <1>c, <1>m, <2>2, <3>1, <4>1, <4>2, <4>3
    <3>3. CASE EndWrite(f, "storing", "vary", "USD A3500")
      <4>1. at'[f] = "vary" /\ at[f] = "storing" /\ errors' = errors /\ raced' = raced
        BY <1>a, <1>d, <2>2, <3>3 DEF EndWrite, At, Goto
      <4>2. ~raced[s] => result'[s] = result[s] \cup {"USD A3500"}
        BY <1>a, <1>d, <2>2, <3>3 DEF EndWrite
      <4>3. QED
        BY <1>b, <1>c, <1>m, <2>2, <3>1, <4>1, <4>2
    <3>4. CASE EndWrite(f, "varying", "ended", "USD A3500 Variacion")
      <4>1. at'[f] = "ended" /\ at[f] = "varying" /\ errors' = errors /\ raced' = raced
        BY <1>a, <1>d, <2>2, <3>4 DEF EndWrite, At, Goto
      <4>2. ~raced[s] => result'[s] = result[s] \cup {"USD A3500 Variacion"}
        BY <1>a, <1>d, <2>2, <3>4 DEF EndWrite
      <4>3. QED
        BY <1>b, <1>c, <1>m, <2>2, <3>1, <4>1, <4>2
    <3>5. QED
      BY <1>9, <1>a, <2>2, <3>2, <3>3, <3>4 DEF Store
  <2>3. CASE f = index
    <3>1. at'[rate] = at[rate]
      BY <1>9, <1>a, <1>d, <2>0, <2>3 DEF Store, StartWrite, EndWrite, At, Goto
    <3>2. CASE StartWrite(f, "store", "storing")
      BY <1>a, <1>b, <1>c, <1>d, <1>m, <2>3, <3>1, <3>2 DEF StartWrite, At, Goto
    <3>3. CASE EndWrite(f, "storing", "ended", "Inflacion Mensual")
      <4>1. at'[f] = "ended" /\ at[f] = "storing" /\ errors' = errors /\ raced' = raced
        BY <1>a, <1>d, <2>3, <3>3 DEF EndWrite, At, Goto
      <4>2. ~raced[s] => result'[s] = result[s] \cup {"Inflacion Mensual"}
        BY <1>a, <1>d, <2>3, <3>3 DEF EndWrite
      <4>3. QED
        BY <1>b, <1>c, <1>m, <2>3, <3>1, <4>1, <4>2
    <3>4. QED
      BY <1>9, <1>a, <2>3, <3>2, <3>3 DEF Store
  <2>4. QED
    BY <1>a, <2>0, <2>1, <2>2, <2>3
<1>10. ASSUME NEW r \in Reports, NEW f \in Both(r), ReceiveError(r, f)
      PROVE  MapInv(s)'
  BY <1>0, <1>a, <1>d, <1>e, <1>q, <1>10 DEF ReceiveError, Goto, fetchVars, reportVars
<1>11. ASSUME NEW r \in Reports, CloseErrChan(r)
      PROVE  MapInv(s)'
  BY <1>0, <1>a, <1>d, <1>e, <1>q, <1>11 DEF CloseErrChan, fetchVars, reportVars
<1>12. ASSUME NEW r \in Reports, ReceiveClose(r)
      PROVE  MapInv(s)'
  BY <1>0, <1>a, <1>d, <1>e, <1>q, <1>12 DEF ReceiveClose, fetchVars, reportVars
<1>13. CASE Tick
  BY <1>0, <1>a, <1>d, <1>e, <1>q, <1>13 DEF Tick, fetchVars, reportVars
<1>14. CASE UNCHANGED vars
  BY <1>0, <1>a, <1>d, <1>e, <1>q, <1>14 DEF vars, fetchVars, reportVars
<1>15. QED
  BY <1>1, <1>2, <1>3a, <1>3, <1>4, <1>5, <1>6, <1>7, <1>8, <1>9, <1>10, <1>11, <1>12, <1>13, <1>14 DEF Next, FetchStep, ReportStep

\* Every step keeps where the cached lists come from, and why a request goes on
\* to the central bank.
LEMMA CacheStep ==
  ASSUME IInv, [Next]_vars
  PROVE  CacheInv'
<1> DEFINE before == {"idle", "list", "get", "ask"}
<1>0. TypeOK /\ CacheInv /\ \A r \in Reports : ChannelInv(r)
  BY DEF IInv
<1>t. /\ at \in [Fetches -> {"idle", "list", "get", "ask", "values", "store", "storing", "vary",
                             "varying", "sending", "ended", "failed"}]
      /\ seen \in [Fetches -> Stored \cup {None}] /\ cache \in Stored \cup {None}
      /\ clock \in 0 .. MaxTime
  BY <1>0 DEF TypeOK
<1>b. /\ cache # None => cache.by \in Fetches
      /\ \A f \in Fetches : seen[f] # None => seen[f].by \in Fetches
  BY <1>t DEF Stored
<1>c. /\ cache # None => at[cache.by] \notin before
      /\ \A f \in Fetches : /\ seen[f] # None => at[seen[f].by] \notin before
                            /\ (at[f] = "ask" /\ Serving) => seen[f] # cache
  BY <1>0 DEF CacheInv
\* A step that caches nothing, and sends nobody back or to the central bank.
<1>q. ASSUME cache' = cache, seen' = seen, clock' = clock,
             \A f \in Fetches : at[f] \notin before => at'[f] \notin before,
             \A f \in Fetches : at'[f] = "ask" => at[f] = "ask"
      PROVE  CacheInv'
  BY <1>b, <1>c, <1>q DEF CacheInv, Serving
<1>1. ASSUME NEW r \in Reports, NEW w \in Windows, GetReferenceVariables(r, w)
      PROVE  CacheInv'
  <2>1. \A f \in Both(r) : at[f] = "idle"
    BY <1>0, <1>1 DEF ChannelInv, GetReferenceVariables
  <2>2. QED
    BY <1>q, <1>t, <2>1, <1>1 DEF GetReferenceVariables
<1>2. ASSUME NEW f \in Fetches, Lookup(f)
      PROVE  CacheInv'
  BY <1>q, <1>t, <1>2 DEF Lookup, Goto, At
<1>3a. ASSUME NEW f \in Fetches, ReadClock(f)
      PROVE  CacheInv'
  BY <1>b, <1>c, <1>t, <1>3a DEF ReadClock, Goto, At, CacheInv, Serving
<1>3. ASSUME NEW f \in Fetches, GetCached(f)
      PROVE  CacheInv'
  BY <1>b, <1>c, <1>t, <1>3 DEF GetCached, Goto, At, CacheInv, Serving
<1>4. ASSUME NEW f \in Fetches, GetVariables(f)
      PROVE  CacheInv'
  <2>1. /\ at[f] = "ask" /\ at' = [at EXCEPT ![f] = "values"]
        /\ cache' = [by |-> f, time |-> clock] /\ seen' = seen /\ clock' = clock
    BY <1>4 DEF GetVariables, Goto, At
  <2>2. \A g \in Fetches : at[g] \notin before => at'[g] \notin before
    BY <1>t, <2>1
  <2>3. \A g \in Fetches : seen[g] # None => seen[g].by # f
    BY <1>c, <2>1
  <2>4. \A g \in Fetches : (at'[g] = "ask" /\ Serving') => seen'[g] # cache'
    BY <2>1, <2>3 DEF Serving
  <2>5. cache'.by = f /\ at'[f] = "values"
    BY <1>t, <2>1
  <2>6. QED
    BY <1>b, <1>c, <2>1, <2>2, <2>4, <2>5 DEF CacheInv
<1>5. ASSUME NEW f \in Fetches, ReturnLookup(f)
      PROVE  CacheInv'
  BY <1>q, <1>t, <1>5 DEF ReturnLookup, Goto, At
<1>6. ASSUME NEW f \in Fetches, CallFails(f)
      PROVE  CacheInv'
  BY <1>q, <1>t, <1>6 DEF CallFails, Fail, Goto
<1>7. ASSUME NEW f \in Fetches, NEW q \in Quotes, GetValues(f, q)
      PROVE  CacheInv'
  BY <1>q, <1>t, <1>7 DEF GetValues, Goto, At
<1>8. ASSUME NEW f \in Fetches, GetNothing(f)
      PROVE  CacheInv'
  BY <1>q, <1>8 DEF GetNothing, fetchVars
<1>9. ASSUME NEW f \in Fetches, Store(f)
      PROVE  CacheInv'
  <2>1. UNCHANGED <<cache, seen, clock>>
    BY <1>0, <1>9, StoreEffect
  <2>2. \E to \in {"storing", "vary", "varying", "ended"} : at' = [at EXCEPT ![f] = to]
    BY <1>0, <1>9, StoreEffect
  <2>3. QED
    BY <1>q, <1>t, <2>1, <2>2
<1>10. ASSUME NEW r \in Reports, NEW f \in Both(r), ReceiveError(r, f)
      PROVE  CacheInv'
  BY <1>q, <1>t, FetchNames, <1>10 DEF ReceiveError, Goto
<1>11. ASSUME NEW r \in Reports, CloseErrChan(r)
      PROVE  CacheInv'
  BY <1>q, <1>11 DEF CloseErrChan, fetchVars
<1>12. ASSUME NEW r \in Reports, ReceiveClose(r)
      PROVE  CacheInv'
  BY <1>q, <1>12 DEF ReceiveClose, fetchVars
<1>13. CASE Tick
  <2>1. cache' = cache /\ seen' = seen /\ at' = at /\ clock' = clock + 1
    BY <1>13 DEF Tick, fetchVars
  <2>2. Serving' => Serving
    <3>1. cache # None => cache.time \in Nat
      BY <1>t DEF Stored
    <3>2. QED
      BY <1>t, <2>1, <3>1 DEF Serving
  <2>3. QED
    BY <1>c, <2>1, <2>2 DEF CacheInv
<1>14. CASE UNCHANGED vars
  BY <1>q, <1>14 DEF vars, fetchVars
<1>15. QED
  BY <1>1, <1>2, <1>3a, <1>3, <1>4, <1>5, <1>6, <1>7, <1>8, <1>9, <1>10, <1>11, <1>12, <1>13, <1>14 DEF Next, FetchStep, ReportStep

-----------------------------------------------------------------------------
\* Every reachable state satisfies the inductive invariant.
THEOREM Invariance == Spec => []IInv
<1>1. IInv /\ [Next]_vars => IInv'
  BY TypeStep, OutageStep, ChannelStep, MapStep, CacheStep DEF IInv
<1>2. QED
  BY InitInv, <1>1, PTL DEF Spec

\* Every reachable state is well typed.
THEOREM TypeCorrect == Spec => []TypeOK
<1>1. IInv => TypeOK
  BY DEF IInv
<1>2. QED
  BY Invariance, <1>1, PTL

\* An answer without an error has every variable unless the writers of its map
\* overlapped: the close of the channel cannot overtake an error or a write.
THEOREM AnswersAreWhole == Spec => []AnswerIsWhole
<1>1. IInv => AnswerIsWhole
  <2> SUFFICES ASSUME IInv, NEW r \in Reports, main[r] = "answered", ~raced[r]
               PROVE  result[r] = Names
    BY DEF AnswerIsWhole
  <2>1. TypeOK /\ ChannelInv(r) /\ MapInv(r)
    BY DEF IInv
  <2>2. \A f \in Both(r) : at[f] = "ended" /\ f \notin errors
    BY <2>1 DEF ChannelInv
  <2>3. Names \subseteq result[r]
    BY <2>1, <2>2 DEF MapInv, Both, Names
  <2>4. QED
    BY <2>1, <2>3 DEF TypeOK
<1>2. QED
  BY Invariance, <1>1, PTL

\* A goroutine left on the error channel is one of two that failed.
THEOREM StuckMeansBothFailed == Spec => []StuckNeedsTwoFailures
<1>1. IInv => StuckNeedsTwoFailures
  BY DEF IInv, ChannelInv, StuckNeedsTwoFailures, Both
<1>2. QED
  BY Invariance, <1>1, PTL

\* Calls that fail never end the process.
THEOREM OutagesAreSurvived == Spec => []OutageIsSurvived
<1>1. IInv => OutageIsSurvived
  BY DEF IInv
<1>2. QED
  BY Invariance, <1>1, PTL

\* Only a request that looked for the list before it was stored replaces it
\* while it serves, whatever the order of requests and however calls fail.
THEOREM ServingListsStay == Spec => ServingListStays
<1>1. IInv /\ [Next]_vars =>
        [\A f \in Fetches : (Serving /\ cache' # cache /\ cache'.by = f) => seen[f] # cache]_vars
  <2> SUFFICES ASSUME IInv, [Next]_vars, NEW f \in Fetches, Serving, cache' # cache, cache'.by = f
               PROVE  seen[f] # cache
    OBVIOUS
  <2>1. TypeOK /\ CacheInv
    BY DEF IInv
  <2>2. \E g \in Fetches : GetVariables(g)
    <3>1. \A g \in Fetches : Store(g) => cache' = cache
      BY <2>1, StoreEffect
    <3>2. QED
      BY <3>1 DEF Next, FetchStep, ReportStep, GetReferenceVariables, Lookup, ReadClock, GetCached,
        ReturnLookup, CallFails, GetValues, GetNothing, ReceiveError, CloseErrChan, ReceiveClose,
        Tick, vars
  <2>3. PICK g \in Fetches : GetVariables(g)
    BY <2>2
  <2>4. g = f /\ at[f] = "ask"
    BY <2>3 DEF GetVariables, At
  <2>5. QED
    BY <2>1, <2>4 DEF CacheInv
<1>2. QED
  BY Invariance, <1>1, PTL DEF Spec, ServingListStays

-----------------------------------------------------------------------------
(***************************************************************************)
(* The values of a report: filling forward, by induction over the days.    *)
(***************************************************************************)

\* The values known by day: the recursive function of CompleteValuations.
Known(quotes, from, to) ==
  CHOOSE known : known = [d \in from - 1 .. to |->
    IF d < from THEN 0 ELSE IF d \in DOMAIN quotes THEN quotes[d] ELSE known[d - 1]]

\* CompleteValuations keeps the days that Known gives a value other than zero.
LEMMA CompletesWithKnown ==
  ASSUME NEW q, NEW from, NEW to
  PROVE  CompleteValuations(q, from, to) =
           [d \in {d \in from .. to : Known(q, from, to)[d] # 0} |-> Known(q, from, to)[d]]
  BY DEF CompleteValuations, Known

\* The recursion has a solution: nothing is known on the day before, and then
\* the value of the day or that of the day before.
LEMMA KnownByDay ==
  ASSUME NEW from \in Int, NEW to \in Int, from <= to,
         NEW D, NEW q \in [D -> Nat]
  PROVE  /\ Known(q, from, to) \in [from - 1 .. to -> Nat]
         /\ Known(q, from, to)[from - 1] = 0
         /\ \A d \in from .. to : Known(q, from, to)[d] =
              IF d \in D THEN q[d] ELSE Known(q, from, to)[d - 1]
<1> DEFINE Solves(known) == known = [d \in from - 1 .. to |->
             IF d < from THEN 0 ELSE IF d \in DOMAIN q THEN q[d] ELSE known[d - 1]]
           next == [d \in from .. to |-> [x \in Nat |-> IF d \in D THEN q[d] ELSE x]]
<1>1. next \in [from .. to -> [Nat -> Nat]]
  OBVIOUS
<1>2. \E g : Solves(g)
  <2>1. PICK g \in [from - 1 .. to -> Nat] :
          g[from - 1] = 0 /\ \A d \in from .. to : g[d] = next[d][g[d - 1]]
    <3> HIDE DEF next
    <3>1. 0 \in Nat
      OBVIOUS
    <3>2. Recursion(from, to, Nat, 0, next)
      <4> HIDE DEF next
      <4>1. QED
        BY <1>1, <3>1, DayRecursion
    <3>3. QED
      BY <3>2 DEF Recursion
  <2>2. ASSUME NEW d \in from - 1 .. to
        PROVE  g[d] = IF d < from THEN 0 ELSE IF d \in DOMAIN q THEN q[d] ELSE g[d - 1]
    <3>1. CASE d = from - 1
      BY <2>1, <3>1
    <3>2. CASE d # from - 1
      <4>1. d \in from .. to /\ d - 1 \in from - 1 .. to
        BY <3>2
      <4>2. g[d - 1] \in Nat
        BY <4>1
      <4>3. QED
        <5>1. next[d][g[d - 1]] = IF d \in D THEN q[d] ELSE g[d - 1]
          BY <4>1, <4>2
        <5> HIDE DEF next
        <5>2. g[d] = next[d][g[d - 1]]
          BY <2>1, <4>1
        <5>3. DOMAIN q = D /\ ~ (d < from)
          BY <4>1
        <5> QED
          BY <5>1, <5>2, <5>3
    <3>3. QED
      BY <3>1, <3>2
  <2>3. Solves(g)
    BY <2>2
  <2> HIDE DEF Solves
  <2>4. QED
    BY <2>3
<1>3. Solves(Known(q, from, to))
  <2>1. Known(q, from, to) = CHOOSE known : Solves(known)
    BY DEF Known
  <2> HIDE DEF Solves
  <2>2. QED
    BY <1>2, <2>1
<1> DEFINE K == Known(q, from, to)
<1>4. /\ DOMAIN K = from - 1 .. to
      /\ K[from - 1] = 0
      /\ \A d \in from .. to : K[d] = IF d \in D THEN q[d] ELSE K[d - 1]
  <2> HIDE DEF K
  <2>1. Solves(K)
    BY <1>3 DEF K
  <2>2. QED
    BY <2>1
<1>5. \A d \in from .. to : d \in {e \in from - 1 .. to : K[e] \in Nat}
  <2> DEFINE S == {e \in from - 1 .. to : K[e] \in Nat}
  <2> HIDE DEF K
  <2>1. from - 1 \in S
    BY <1>4
  <2>2. ASSUME NEW d \in from .. to, d - 1 \in S PROVE d \in S
    BY <1>4, <2>2
  <2> HIDE DEF S
  <2>3. \A d \in from .. to : d \in S
    BY <2>1, <2>2, DayInduction
  <2>4. QED
    BY <2>3 DEF S
<1>6. K \in [from - 1 .. to -> Nat]
  <2> HIDE DEF K
  <2>1. K = [d \in DOMAIN K |-> K[d]]
    <3>1. Solves(K)
      BY <1>3 DEF K
    <3>2. QED
      BY <3>1, <1>4
  <2>2. \A d \in from - 1 .. to : K[d] \in Nat
    BY <1>4, <1>5
  <2>3. QED
    BY <1>4, <2>1, <2>2
<1>7. QED
  BY <1>4, <1>6

\* What is known on a day is the value of the latest day up to it that has one.
LEMMA KnownIsLatest ==
  ASSUME NEW from \in Int, NEW to \in Int, from <= to,
         NEW q, q \in [DOMAIN q -> Nat], DOMAIN q \subseteq from .. to
  PROVE  \A d \in from .. to :
           \/ /\ LatestUpTo(q, d) = {}
              /\ Known(q, from, to)[d] = 0
           \/ \E e \in LatestUpTo(q, d) :
                LatestUpTo(q, d) = {e} /\ Known(q, from, to)[d] = q[e]
<1> DEFINE K == Known(q, from, to)
           Good(d) == \/ LatestUpTo(q, d) = {} /\ K[d] = 0
                      \/ \E e \in LatestUpTo(q, d) : LatestUpTo(q, d) = {e} /\ K[d] = q[e]
           S == {d \in from - 1 .. to : Good(d)}
<1>1. /\ K[from - 1] = 0
      /\ \A d \in from .. to : K[d] = IF d \in DOMAIN q THEN q[d] ELSE K[d - 1]
  BY KnownByDay
<1> HIDE DEF K
<1>2. from - 1 \in S
  <2>1. LatestUpTo(q, from - 1) = {}
    BY DEF LatestUpTo
  <2>2. QED
    BY <1>1, <2>1
<1>3. ASSUME NEW d \in from .. to, d - 1 \in S PROVE d \in S
  <2>1. CASE d \in DOMAIN q
    <3>1. LatestUpTo(q, d) = {d}
      BY <2>1 DEF LatestUpTo
    <3>2. QED
      BY <1>1, <2>1, <3>1
  <2>2. CASE d \notin DOMAIN q
    <3>1. \A x \in DOMAIN q : x <= d <=> x <= d - 1
      BY <2>2
    <3>2. LatestUpTo(q, d) = LatestUpTo(q, d - 1)
      BY <3>1 DEF LatestUpTo
    <3>3. K[d] = K[d - 1]
      BY <1>1, <2>2
    <3>4. QED
      BY <1>3, <3>2, <3>3
  <2>3. QED
    BY <2>1, <2>2
<1>4. \A d \in from .. to : d \in S
  <2> HIDE DEF S
  <2>1. QED
    BY <1>2, <1>3, DayInduction
<1>5. QED
  BY <1>4 DEF K

\* What the fetches write from, in the initial state and after every step.
LEMMA DataInit == Init => DataInv
  BY DEF Init, DataInv, Fetches, Rates, Indices

LEMMA DataStep ==
  ASSUME IInv, DataInv, [Next]_vars
  PROVE  DataInv'
<1>0. TypeOK /\ DataInv /\ \A r \in Reports : ChannelInv(r)
  BY DEF IInv
<1> DEFINE Writes == {"store", "storing", "vary", "varying"}
\* A step that brings no fetch to its first write, and changes no answer and no window.
<1>q. ASSUME values' = values, window' = window,
             \A r \in Reports : main'[r] # "idle" => main[r] # "idle",
             \A f \in Rates \cup Indices : at'[f] \in Writes => at[f] \in Writes
      PROVE  DataInv'
  BY <1>0, <1>q DEF DataInv, Asked, Since
<1>t. /\ at \in [Fetches -> {"idle", "list", "get", "ask", "values", "store", "storing", "vary",
                             "varying", "sending", "ended", "failed"}]
      /\ main \in [Reports -> {"idle", "receive", "answered", "failed"}]
      /\ window \in [Reports -> Windows \cup {None}]
  BY <1>0 DEF TypeOK
<1>1. ASSUME NEW r \in Reports, NEW w \in Windows, GetReferenceVariables(r, w)
      PROVE  DataInv'
  <2>1. \A f \in Rates \cup Indices : at'[f] \in Writes => at[f] \in Writes /\ f[1] # r
    BY <1>1, <1>t, FetchNames DEF GetReferenceVariables
  <2>2. \A f \in Rates \cup Indices : f[1] # r => Asked(f)' = Asked(f)
    BY <1>1, <1>t, FetchNames DEF GetReferenceVariables, Asked, Since
  <2>3. values' = values /\ \A s \in Reports : main'[s] # "idle" => window'[s] \in Windows
    BY <1>0, <1>1, <1>t DEF GetReferenceVariables, DataInv
  <2>4. QED
    BY <1>0, <2>1, <2>2, <2>3 DEF DataInv
<1>2. ASSUME NEW f \in Fetches, Lookup(f)
      PROVE  DataInv'
  BY <1>q, <1>t, <1>2 DEF Lookup, Goto, At, reportVars
<1>3a. ASSUME NEW f \in Fetches, ReadClock(f)
      PROVE  DataInv'
  BY <1>q, <1>t, <1>3a DEF ReadClock, Goto, At, reportVars
<1>3. ASSUME NEW f \in Fetches, GetCached(f)
      PROVE  DataInv'
  <2>1. /\ \E to \in {"values", "ask"} : at' = [at EXCEPT ![f] = to]
        /\ UNCHANGED <<main, window, values>>
    BY <1>3 DEF GetCached, Goto, reportVars
  <2>2. QED
    BY <1>q, <1>t, <2>1
<1>4. ASSUME NEW f \in Fetches, GetVariables(f)
      PROVE  DataInv'
  BY <1>q, <1>t, <1>4 DEF GetVariables, Goto, At, reportVars
<1>5. ASSUME NEW f \in Fetches, ReturnLookup(f)
      PROVE  DataInv'
  BY <1>q, <1>t, <1>5 DEF ReturnLookup, Goto, At, reportVars
<1>6. ASSUME NEW f \in Fetches, CallFails(f)
      PROVE  DataInv'
  BY <1>q, <1>t, <1>6 DEF CallFails, Fail, Goto, reportVars
<1>7. ASSUME NEW f \in Fetches, NEW q \in Quotes, GetValues(f, q)
      PROVE  DataInv'
  <2>1. /\ values' = [values EXCEPT ![f] = q] /\ at' = [at EXCEPT ![f] = "store"]
        /\ UNCHANGED <<main, window>> /\ DOMAIN q \subseteq Asked(f)
    BY <1>7 DEF GetValues, Goto, reportVars
  <2>2. \A g \in Rates \cup Indices : Asked(g)' = Asked(g)
    BY <2>1 DEF Asked, Since
  <2>3. \A g \in Rates \cup Indices : g \in Fetches
    BY FetchNames
  <2>4. QED
    BY <1>0, <1>t, <2>1, <2>2, <2>3 DEF DataInv
<1>8. ASSUME NEW f \in Fetches, GetNothing(f)
      PROVE  DataInv'
  BY <1>q, <1>8 DEF GetNothing, fetchVars, reportVars
<1>9. ASSUME NEW f \in Fetches, Store(f)
      PROVE  DataInv'
  <2>1. UNCHANGED <<main, window, values>> /\ at[f] \in Writes
    BY <1>0, <1>9, StoreEffect
  <2>2. \E to : at' = [at EXCEPT ![f] = to]
    BY <1>0, <1>9, StoreEffect
  <2>3. QED
    BY <1>q, <1>t, <2>1, <2>2
<1>10. ASSUME NEW r \in Reports, NEW f \in Both(r), ReceiveError(r, f)
      PROVE  DataInv'
  BY <1>q, <1>t, FetchNames, <1>10 DEF ReceiveError, Goto
<1>11. ASSUME NEW r \in Reports, CloseErrChan(r)
      PROVE  DataInv'
  BY <1>q, <1>11 DEF CloseErrChan, fetchVars
<1>12. ASSUME NEW r \in Reports, ReceiveClose(r)
      PROVE  DataInv'
  BY <1>q, <1>t, <1>12 DEF ReceiveClose, fetchVars
<1>13. CASE Tick
  BY <1>q, <1>13 DEF Tick, fetchVars, reportVars
<1>14. CASE UNCHANGED vars
  BY <1>q, <1>14 DEF vars, fetchVars, reportVars
<1>15. QED
  BY <1>1, <1>2, <1>3a, <1>3, <1>4, <1>5, <1>6, <1>7, <1>8, <1>9, <1>10, <1>11, <1>12, <1>13, <1>14 DEF Next, FetchStep, ReportStep

\* A fetch of a report writes from values of days its report asked for.
THEOREM DataInvariance == Spec => []DataInv
<1>1. IInv /\ DataInv /\ [Next]_vars => DataInv'
  BY DataStep
<1>2. QED
  BY Invariance, DataInit, <1>1, PTL DEF Spec

\* The values v has on day d are those of q, filled forward.
FilledOn(q, v, d) ==
  IF d \in DOMAIN v
  THEN \E e \in LatestUpTo(q, d) : v[d] = q[e]
  ELSE \A e \in LatestUpTo(q, d) : q[e] = 0

\* What completing values fills in: the latest value up to the day, unless it
\* is zero or there is none.
LEMMA CompletedForward ==
  ASSUME NEW from \in Int, NEW to \in Int, from <= to,
         NEW q, q \in [DOMAIN q -> Nat], DOMAIN q \subseteq from .. to,
         NEW d \in from .. to
  PROVE  FilledOn(q, CompleteValuations(q, from, to), d)
<1> DEFINE K == Known(q, from, to)
           v == CompleteValuations(q, from, to)
<1>1. v = [x \in {x \in from .. to : K[x] # 0} |-> K[x]]
  BY CompletesWithKnown
<1>2. \/ LatestUpTo(q, d) = {} /\ K[d] = 0
      \/ \E e \in LatestUpTo(q, d) : LatestUpTo(q, d) = {e} /\ K[d] = q[e]
  BY KnownIsLatest
<1> HIDE DEF K, v
<1>3. d \in DOMAIN v <=> K[d] # 0
  BY <1>1
<1>4. d \in DOMAIN v => v[d] = K[d]
  BY <1>1
<1>5. FilledOn(q, v, d)
  BY <1>2, <1>3, <1>4 DEF FilledOn
<1>6. QED
  BY <1>5 DEF v

\* The range and the answer a fetch of a report computes from.
LEMMA FetchRange ==
  ASSUME IInv, DataInv, NEW f \in Rates \cup Indices, at[f] \in {"store", "storing", "vary", "varying"}
  PROVE  /\ window[f[1]] \in Window
         /\ Since(f) \in Int /\ window[f[1]].to \in Int /\ Since(f) <= window[f[1]].to
         /\ values[f] \in [DOMAIN values[f] -> Nat]
         /\ DOMAIN values[f] \subseteq Since(f) .. window[f[1]].to
<1>1. f[1] \in Reports /\ f \in Both(f[1])
  BY FetchNames DEF Both
<1>2. main[f[1]] # "idle"
  BY <1>1 DEF IInv, ChannelInv
<1>3. window[f[1]] \in Window
  BY <1>1, <1>2 DEF DataInv
<1>4. Since(f) \in Int /\ window[f[1]].to \in Int /\ Since(f) <= window[f[1]].to
  BY <1>3 DEF Since, Window
<1>5. values[f] \in Quotes /\ DOMAIN values[f] \subseteq Since(f) .. window[f[1]].to
  BY DEF DataInv, Asked
<1>6. QED
  BY <1>3, <1>4, <1>5

\* A report's valuations are filled forward from the central bank's answer,
\* and a day is left out only when nothing, or a zero, is known up to it.
THEOREM ValuationsAreFilledForward == Spec => []FilledForward
<1>1. IInv /\ DataInv => FilledForward
  <2> SUFFICES ASSUME IInv, DataInv, NEW f \in Rates \cup Indices, at[f] = "store",
                      NEW d \in Asked(f)
               PROVE  FilledOn(values[f], Valuations(f), d)
    BY DEF FilledForward, FilledOn
  <2> DEFINE w == window[f[1]]
  <2>1. /\ Since(f) \in Int /\ w.to \in Int /\ Since(f) <= w.to
        /\ values[f] \in [DOMAIN values[f] -> Nat]
        /\ DOMAIN values[f] \subseteq Since(f) .. w.to
    BY FetchRange
  <2>2. d \in Since(f) .. w.to
    BY DEF Asked
  <2> HIDE DEF w
  <2>3. QED
    BY <2>1, <2>2, CompletedForward DEF Valuations, w
<1>2. QED
  BY Invariance, DataInvariance, <1>1, PTL

-----------------------------------------------------------------------------
(***************************************************************************)
(* The variation of the exchange rate: growths multiply along the days.    *)
(***************************************************************************)

\* The accumulated growth by day: the recursive function of
\* ComputeValuationVariations.
Delta(v, interval, from, to) ==
  CHOOSE delta : delta = [d \in from - 1 .. to |->
    IF d < from THEN Unity
    ELSE IF d \in Varies(v, interval)
    THEN Times(delta[d - 1], Fraction(v[d], v[d - interval]))
    ELSE delta[d - 1]]

\* A variation is the accumulated growth, less one.
LEMMA VariesWithDelta ==
  ASSUME NEW v, NEW interval, NEW from, NEW to
  PROVE  ComputeValuationVariations(v, interval, from, to) =
           [d \in Varies(v, interval) |-> Minus(Delta(v, interval, from, to)[d], Unity)]
  BY DEF ComputeValuationVariations, Delta

\* The recursion has a solution, in fractions in lowest terms.
LEMMA DeltaByDay ==
  ASSUME NEW from \in Int, NEW to \in Int, from <= to,
         NEW v, v \in [DOMAIN v -> Nat \ {0}], DOMAIN v \subseteq from .. to
  PROVE  /\ Delta(v, 1, from, to)[from - 1] = Unity
         /\ \A d \in from .. to : Delta(v, 1, from, to)[d] =
              IF d \in DOMAIN v /\ d - 1 \in DOMAIN v
              THEN Times(Delta(v, 1, from, to)[d - 1], Fraction(v[d], v[d - 1]))
              ELSE Delta(v, 1, from, to)[d - 1]
<1> DEFINE D == DOMAIN v
<1> DEFINE Solves(delta) == delta = [d \in from - 1 .. to |->
             IF d < from THEN Unity
             ELSE IF d \in Varies(v, 1)
             THEN Times(delta[d - 1], Fraction(v[d], v[d - 1]))
             ELSE delta[d - 1]]
           Exact == {p \in [num : Int, den : Nat \ {0}] : InLowestTerms(p)}
           next == [d \in from .. to |-> [x \in Exact |->
                     IF d \in Varies(v, 1) THEN Times(x, Fraction(v[d], v[d - 1])) ELSE x]]
<1>0. \A d \in from .. to : d \in Varies(v, 1) <=> d \in D /\ d - 1 \in D
  BY DEF Varies
<1>1. next \in [from .. to -> [Exact -> Exact]]
  <2>1. ASSUME NEW d \in from .. to, NEW x \in Exact, d \in Varies(v, 1)
        PROVE  Times(x, Fraction(v[d], v[d - 1])) \in Exact
    <3>1. v[d] \in Int /\ v[d - 1] \in Int \ {0}
      BY <1>0, <2>1
    <3>2. InLowestTerms(Fraction(v[d], v[d - 1]))
      BY <3>1, FractionIsExact
    <3>3. InLowestTerms(Times(x, Fraction(v[d], v[d - 1])))
      BY <3>2, TimesIsExact
    <3>4. QED
      BY <3>3 DEF InLowestTerms
  <2> HIDE DEF Exact
  <2>2. QED
    BY <2>1
<1>2. Unity \in Exact
  BY UnityInLowestTerms DEF InLowestTerms
<1>3. \E g : Solves(g)
  <2>1. PICK g \in [from - 1 .. to -> Exact] :
          g[from - 1] = Unity /\ \A d \in from .. to : g[d] = next[d][g[d - 1]]
    <3> HIDE DEF Exact, next
    <3>1. Recursion(from, to, Exact, Unity, next)
      BY <1>1, <1>2, DayRecursion
    <3>2. QED
      BY <3>1 DEF Recursion
  <2> HIDE DEF Exact
  <2>2. ASSUME NEW d \in from - 1 .. to
        PROVE  g[d] = IF d < from THEN Unity
                      ELSE IF d \in Varies(v, 1)
                      THEN Times(g[d - 1], Fraction(v[d], v[d - 1]))
                      ELSE g[d - 1]
    <3>1. CASE d = from - 1
      BY <2>1, <3>1
    <3>2. CASE d # from - 1
      <4>1. d \in from .. to /\ d - 1 \in from - 1 .. to /\ ~ (d < from)
        BY <3>2
      <4>2. g[d - 1] \in Exact
        BY <4>1
      <4>3. next[d][g[d - 1]] = IF d \in Varies(v, 1)
                                THEN Times(g[d - 1], Fraction(v[d], v[d - 1])) ELSE g[d - 1]
        BY <4>1, <4>2
      <4> HIDE DEF next
      <4>4. g[d] = next[d][g[d - 1]]
        BY <2>1, <4>1
      <4>5. QED
        BY <4>1, <4>3, <4>4
    <3>3. QED
      BY <3>1, <3>2
  <2>3. Solves(g)
    BY <2>2
  <2> HIDE DEF Solves
  <2>4. QED
    BY <2>3
<1>4. Solves(Delta(v, 1, from, to))
  <2>1. Delta(v, 1, from, to) = CHOOSE delta : Solves(delta)
    BY DEF Delta
  <2> HIDE DEF Solves
  <2>2. QED
    BY <1>3, <2>1
<1> DEFINE K == Delta(v, 1, from, to)
<1> HIDE DEF K
<1>5. Solves(K)
  BY <1>4 DEF K
<1>6. /\ K[from - 1] = Unity
      /\ \A d \in from .. to : K[d] = IF d \in Varies(v, 1)
                                      THEN Times(K[d - 1], Fraction(v[d], v[d - 1])) ELSE K[d - 1]
  BY <1>5
<1> HIDE DEF Solves, next, Exact
<1>7. /\ K[from - 1] = Unity
      /\ \A d \in from .. to : K[d] = IF d \in D /\ d - 1 \in D
                                      THEN Times(K[d - 1], Fraction(v[d], v[d - 1])) ELSE K[d - 1]
  BY <1>0, <1>6
<1>8. QED
  BY <1>7 DEF K

\* Values for some days of a range have a first day.
LEMMA FirstDayIsFirst ==
  ASSUME NEW from \in Int, NEW to \in Int, NEW v, DOMAIN v \subseteq from .. to, DOMAIN v # {}
  PROVE  FirstDay(v) \in DOMAIN v /\ \A x \in DOMAIN v : FirstDay(v) <= x
<1> DEFINE T == {n \in Nat : n + from \in DOMAIN v}
<1>1. T # {}
  <2>1. PICK d \in DOMAIN v : TRUE
    OBVIOUS
  <2>2. d - from \in Nat /\ (d - from) + from = d
    BY <2>1
  <2>3. QED
    BY <2>1, <2>2
<1>2. PICK n \in T : \A y \in T : n <= y
  BY <1>1, LeastNatural
<1>3. n + from \in DOMAIN v
  BY <1>2
<1>4. ASSUME NEW x \in DOMAIN v PROVE n + from <= x
  <2>1. x - from \in Nat /\ (x - from) + from = x
    OBVIOUS
  <2>2. n <= x - from
    BY <1>2, <2>1
  <2>3. QED
    BY <1>2, <2>1, <2>2
<1>5. QED
  BY <1>3, <1>4 DEF FirstDay

\* As long as no day is left out, the accumulated growth is the growth since
\* the first day.
LEMMA DeltaIsGrowth ==
  ASSUME NEW from \in Int, NEW to \in Int, from <= to,
         NEW v, v \in [DOMAIN v -> Nat \ {0}], DOMAIN v \subseteq from .. to,
         NEW day \in DOMAIN v, FirstDay(v) .. day \subseteq DOMAIN v
  PROVE  Delta(v, 1, from, to)[day] = Fraction(v[day], v[FirstDay(v)])
<1> DEFINE D == DOMAIN v
           e == FirstDay(v)
           K == Delta(v, 1, from, to)
           Good(d) == /\ d < e => K[d] = Unity
                      /\ e <= d /\ e .. d \subseteq D => K[d] = Fraction(v[d], v[e])
           S == {d \in from - 1 .. to : Good(d)}
<1>1. e \in D /\ e \in from .. to /\ \A x \in D : e <= x
  BY FirstDayIsFirst
<1>2. /\ K[from - 1] = Unity
      /\ \A d \in from .. to : K[d] = IF d \in D /\ d - 1 \in D
                                      THEN Times(K[d - 1], Fraction(v[d], v[d - 1])) ELSE K[d - 1]
  BY DeltaByDay
<1>v. \A d \in D : v[d] \in Nat \ {0}
  OBVIOUS
<1> HIDE DEF e, K
<1>3. from - 1 \in S
  BY <1>1, <1>2
<1>4. ASSUME NEW d \in from .. to, d - 1 \in S PROVE d \in S
  <2>1. CASE d < e
    <3>1. d \notin D
      BY <1>1, <2>1
    <3>2. d - 1 < e /\ K[d] = K[d - 1]
      BY <1>1, <1>2, <2>1, <3>1
    <3>3. QED
      BY <1>1, <1>4, <2>1, <3>2
  <2>2. CASE d = e
    <3>1. d - 1 \notin D /\ d - 1 < e
      BY <1>1, <2>2
    <3>2. K[d] = Unity
      BY <1>2, <1>4, <3>1
    <3>3. Fraction(v[e], v[e]) = Unity
      BY <1>1, <1>v, FractionOfEquals
    <3>4. QED
      BY <2>2, <3>2, <3>3
  <2>3. CASE e < d
    <3> SUFFICES ASSUME e .. d \subseteq D PROVE K[d] = Fraction(v[d], v[e])
      BY <1>1, <2>3
    <3>1. d \in D /\ d - 1 \in D /\ e <= d - 1 /\ e .. d - 1 \subseteq D
      BY <1>1, <2>3
    <3>2. K[d - 1] = Fraction(v[d - 1], v[e])
      BY <1>4, <3>1
    <3>3. K[d] = Times(K[d - 1], Fraction(v[d], v[d - 1]))
      BY <1>2, <3>1
    <3>4. v[d] \in Nat \ {0} /\ v[d - 1] \in Nat \ {0} /\ v[e] \in Nat \ {0}
      BY <1>1, <1>v, <3>1
    <3>5. QED
      BY <3>2, <3>3, <3>4, GrowthsMultiply
  <2>4. QED
    BY <1>1, <2>1, <2>2, <2>3
<1>5. \A d \in from .. to : d \in S
  <2> HIDE DEF S
  <2>1. QED
    BY <1>3, <1>4, DayInduction
<1>6. Good(day)
  BY <1>5
<1>7. e <= day /\ e .. day \subseteq D
  BY <1>1 DEF e
<1>8. QED
  BY <1>6, <1>7 DEF e, K

\* With no day left out, the variation is the growth since the first day.
LEMMA DailyVariation ==
  ASSUME NEW from \in Int, NEW to \in Int, from <= to,
         NEW v, v \in [DOMAIN v -> Nat \ {0}], DOMAIN v \subseteq from .. to,
         NEW d \in DOMAIN ComputeValuationVariations(v, 1, from, to),
         FirstDay(v) .. d \subseteq DOMAIN v
  PROVE  Plus(ComputeValuationVariations(v, 1, from, to)[d], Unity) = GrowthTo(v, d)
<1> DEFINE K == Delta(v, 1, from, to)
<1>1. ComputeValuationVariations(v, 1, from, to) = [x \in Varies(v, 1) |-> Minus(K[x], Unity)]
  BY VariesWithDelta
<1>2. d \in Varies(v, 1) /\ d \in DOMAIN v
  BY <1>1 DEF Varies
<1>3. K[d] = Fraction(v[d], v[FirstDay(v)])
  BY <1>2, DeltaIsGrowth
<1>4. FirstDay(v) \in DOMAIN v
  BY <1>2, FirstDayIsFirst
<1>5. InLowestTerms(K[d])
  <2>1. v[d] \in Nat \ {0} /\ v[FirstDay(v)] \in Nat \ {0}
    BY <1>2, <1>4
  <2>2. InLowestTerms(Fraction(v[d], v[FirstDay(v)]))
    BY <2>1, FractionIsExact
  <2>3. QED
    BY <1>3, <2>2
<1> HIDE DEF K
<1>6. Plus(Minus(K[d], Unity), Unity) = K[d]
  BY <1>5, MinusPlusUnity
<1>7. ComputeValuationVariations(v, 1, from, to)[d] = Minus(K[d], Unity)
  BY <1>1, <1>2
<1>8. QED
  BY <1>3, <1>6, <1>7 DEF GrowthTo

\* Completed values are positive, on days of the range.
LEMMA CompletedArePositive ==
  ASSUME NEW from \in Int, NEW to \in Int, from <= to, NEW q, q \in [DOMAIN q -> Nat]
  PROVE  LET v == CompleteValuations(q, from, to) IN
         v \in [DOMAIN v -> Nat \ {0}] /\ DOMAIN v \subseteq from .. to
<1> DEFINE K == Known(q, from, to)
           v == CompleteValuations(q, from, to)
<1>1. v = [x \in {x \in from .. to : K[x] # 0} |-> K[x]]
  BY CompletesWithKnown
<1>2. K \in [from - 1 .. to -> Nat]
  BY KnownByDay
<1> HIDE DEF K, v
<1>3. \A d \in from .. to : K[d] \in Nat
  BY <1>2
<1>4. v \in [DOMAIN v -> Nat \ {0}] /\ DOMAIN v \subseteq from .. to
  BY <1>1, <1>3
<1>5. QED
  BY <1>4 DEF v

\* The variation of the exchange rate in a report by days is its growth since
\* the first value, unless a zero broke the chain.
THEOREM DailyVariationsAreGrowth == Spec => []DailyVariationIsGrowth
<1>1. IInv /\ DataInv => DailyVariationIsGrowth
  <2> SUFFICES ASSUME IInv, DataInv, NEW f \in Rates, at[f] = "vary", window[f[1]].interval = 1,
                      NEW d \in DOMAIN Variation(f), FirstDay(Valuations(f)) .. d \subseteq DOMAIN Valuations(f)
               PROVE  Plus(Variation(f)[d], Unity) = GrowthTo(Valuations(f), d)
    BY DEF DailyVariationIsGrowth
  <2> DEFINE v == Valuations(f)
             from == Since(f)
             to == window[f[1]].to
  <2>1. /\ window[f[1]] \in Window
        /\ from \in Int /\ to \in Int /\ from <= to /\ values[f] \in [DOMAIN values[f] -> Nat]
    BY FetchRange
  <2>2. window[f[1]].from = from
    <3>1. f \notin Indices
      BY DEF Rates, Indices
    <3>2. QED
      BY <2>1, <3>1 DEF Since, Window
  <2>3. v = CompleteValuations(values[f], from, to)
    BY DEF Valuations
  <2>4. Variation(f) = ComputeValuationVariations(v, 1, from, to)
    BY <2>2 DEF Variation
  <2> HIDE DEF v, from, to
  <2>5. v \in [DOMAIN v -> Nat \ {0}] /\ DOMAIN v \subseteq from .. to
    BY <2>1, <2>3, CompletedArePositive
  <2>6. d \in DOMAIN ComputeValuationVariations(v, 1, from, to) /\ FirstDay(v) .. d \subseteq DOMAIN v
    BY <2>4 DEF v
  <2>7. Plus(ComputeValuationVariations(v, 1, from, to)[d], Unity) = GrowthTo(v, d)
    BY <2>1, <2>5, <2>6, DailyVariation
  <2>8. QED
    BY <2>4, <2>7 DEF v
<1>2. QED
  BY Invariance, DataInvariance, <1>1, PTL
=============================================================================
