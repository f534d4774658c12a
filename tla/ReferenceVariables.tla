-------------------------- MODULE ReferenceVariables --------------------------
(***************************************************************************)
(* The reference variables of a report, read from the central bank (BCRA). *)
(*                                                                         *)
(* A report fetches the exchange rate and the inflation in two goroutines, *)
(* which write one map without a lock and send their errors on one         *)
(* unbuffered channel.  A third goroutine closes the channel when both are *)
(* done.  The report receives once: an error, or the close.  Single        *)
(* variables are also looked up, in the goroutine of their own request.    *)
(* All of them share a cache of the list of variables.                     *)
(*                                                                         *)
(* A panic in a goroutine of a report ends the process; in the goroutine   *)
(* of a request it ends the request.                                       *)
(***************************************************************************)
EXTENDS Fractions, FiniteSets

CONSTANTS
  Reports,   \* requests for a report
  Lookups,   \* requests for one variable, or for the list of them
  Windows,   \* the ranges of days and the intervals reports are asked for
  Quotes,    \* answers: the values the central bank has, by day
  Lead,      \* how long before the range inflation is asked for (30 days)
  Expiry,    \* how long the list of variables is cached (24 hours)
  MaxTime,   \* bound: time passes up to here
  None       \* no list, no answer, no window yet

Window == {w \in [from : Int, to : Int, interval : Nat] : w.from <= w.to}

ASSUME VariablesAssumption ==
  /\ Windows \subseteq Window
  /\ \A q \in Quotes : q \in [DOMAIN q -> Nat] /\ DOMAIN q \in SUBSET Int /\ DOMAIN q # {}
  /\ Lead \in Nat /\ Expiry \in Nat /\ MaxTime \in Nat
  /\ Reports \cap Lookups = {}
  /\ None \notin Windows /\ None \notin Quotes

Rates   == {<<r, "A3500">> : r \in Reports}
Indices == {<<r, "inflation">> : r \in Reports}
Fetches == Rates \cup Indices \cup {<<l, "lookup">> : l \in Lookups}
Both(r) == {<<r, "A3500">>, <<r, "inflation">>}

VARIABLES
  up,       \* is the process running?
  clock,    \* the time
  cache,    \* VariablesCache: who stored a list of variables, and when, or None
  main,     \* where a report is
  window,   \* what it was asked for
  closed,   \* is its error channel closed?
  result,   \* variableValuationsMap: the variables that have an entry
  raced,    \* did two writes to the map overlap?
  at,       \* the step a fetch takes next
  seen,     \* what was cached when it read the clock to look there
  values,   \* the values it got, by day
  errors,   \* history: the fetches that failed
  blank     \* history: those given neither values nor a reason

reportVars == <<main, window, closed, result, raced>>
fetchVars  == <<at, seen, values>>
vars == <<up, clock, cache, reportVars, fetchVars, errors, blank>>

Init ==
  /\ up = TRUE /\ clock = 0 /\ cache = None
  /\ main   = [r \in Reports |-> "idle"]
  /\ window = [r \in Reports |-> None]
  /\ closed = [r \in Reports |-> FALSE]
  /\ result = [r \in Reports |-> {}]
  /\ raced  = [r \in Reports |-> FALSE]
  /\ at     = [f \in Fetches |-> "idle"]
  /\ seen   = [f \in Fetches |-> None]
  /\ values = [f \in Fetches |-> None]
  /\ errors = {} /\ blank = {}

At(f, l)   == up /\ at[f] = l
Goto(f, l) == at' = [at EXCEPT ![f] = l]

\* An error of a report's fetch is sent; a lookup returns it.
Fail(f) ==
  /\ Goto(f, IF f[2] = "lookup" THEN "failed" ELSE "sending")
  /\ errors' = errors \cup {f}

-----------------------------------------------------------------------------
(***************************************************************************)
(* Valuations: functions from days to values that are not zero.            *)
(***************************************************************************)

\* Mutation: only the first value is carried forward.
CompleteValuationsFirst(quotes, from, to) ==
  LET known[d \in from - 1 .. to] ==
        IF d < from THEN 0
        ELSE IF d \in DOMAIN quotes /\ known[d - 1] = 0 THEN quotes[d] ELSE known[d - 1]
  IN  [d \in {d \in from .. to : known[d] # 0} |-> known[d]]

\* A day without a value has that of the day before.
CompleteValuations(quotes, from, to) ==
  LET known[d \in from - 1 .. to] ==
        IF d < from THEN 0
        ELSE IF d \in DOMAIN quotes THEN quotes[d] ELSE known[d - 1]
  IN  [d \in {d \in from .. to : known[d] # 0} |-> known[d]]

Varies(v, interval) == {d \in DOMAIN v : d - interval \in DOMAIN v}

\* Mutation: the variations are added up.
ComputeValuationVariationsAdded(v, interval, from, to) ==
  LET delta[d \in from - 1 .. to] ==
        IF d < from THEN Zero
        ELSE IF d \in Varies(v, interval)
        THEN Plus(delta[d - 1], Minus(Fraction(v[d], v[d - interval]), Unity))
        ELSE delta[d - 1]
  IN  [d \in Varies(v, interval) |-> delta[d]]

\* On every day, whatever the interval, the growth over one more interval is
\* multiplied in.
ComputeValuationVariations(v, interval, from, to) ==
  LET delta[d \in from - 1 .. to] ==
        IF d < from THEN Unity
        ELSE IF d \in Varies(v, interval)
        THEN Times(delta[d - 1], Fraction(v[d], v[d - interval]))
        ELSE delta[d - 1]
  IN  [d \in Varies(v, interval) |-> Minus(delta[d], Unity)]

-----------------------------------------------------------------------------
(***************************************************************************)
(* Requests, and the list of variables.                                    *)
(***************************************************************************)
GetReferenceVariables(r, w) ==
  /\ up /\ main[r] = "idle"
  /\ main' = [main EXCEPT ![r] = "receive"]
  /\ window' = [window EXCEPT ![r] = w]
  /\ at' = [f \in Fetches |-> IF f \in Both(r) THEN "list" ELSE at[f]]
  /\ UNCHANGED <<up, clock, cache, closed, result, raced, seen, values, errors, blank>>

Lookup(f) ==
  /\ f[2] = "lookup"
  /\ At(f, "idle")
  /\ Goto(f, "list")
  /\ UNCHANGED <<up, clock, cache, reportVars, seen, values, errors, blank>>

\* time.Now(), which is evaluated before the cache is locked.
ReadClock(f) ==
  /\ At(f, "list")
  /\ seen' = [seen EXCEPT ![f] = cache]
  /\ Goto(f, "get")
  /\ UNCHANGED <<up, clock, cache, reportVars, values, errors, blank>>

Serving == cache # None /\ clock <= cache.time + Expiry

\* Mutation: the entry is gone when it expires, not after.
GetCachedStrictly(f) ==
  /\ At(f, "get")
  /\ Goto(f, IF Serving /\ clock < cache.time + Expiry /\ cache = seen[f] THEN "values" ELSE "ask")
  /\ UNCHANGED <<up, clock, cache, reportVars, seen, values, errors, blank>>

\* Cache.Get: an entry that was cached after the clock was read is not taken.
GetCached(f) ==
  /\ At(f, "get")
  /\ Goto(f, IF Serving /\ cache = seen[f] THEN "values" ELSE "ask")
  /\ UNCHANGED <<up, clock, cache, reportVars, seen, values, errors, blank>>

\* The status is not looked at: the body of an error is an empty list, and
\* cached like a whole one.
GetVariables(f) ==
  /\ At(f, "ask")
  /\ cache' = [by |-> f, time |-> clock]
  /\ Goto(f, "values")
  /\ UNCHANGED <<up, clock, reportVars, seen, values, errors, blank>>

-----------------------------------------------------------------------------
(***************************************************************************)
(* The values of a variable, and the two goroutines of a report.           *)
(***************************************************************************)
\* The days a report's fetch asks for; inflation is published late.
Since(f) == window[f[1]].from - (IF f \in Indices THEN Lead ELSE 0)
Asked(f) == Since(f) .. window[f[1]].to

\* What the entries of the map hold, a function of the answer.
Valuations(f) == CompleteValuations(values[f], Since(f), window[f[1]].to)
Variation(f) == LET w == window[f[1]] IN
  ComputeValuationVariations(Valuations(f), w.interval, w.from, w.to)

GetValues(f, q) ==
  /\ f[2] # "lookup"
  /\ At(f, "values")
  /\ DOMAIN q \subseteq Asked(f)
  /\ values' = [values EXCEPT ![f] = q]
  /\ Goto(f, "store")
  /\ UNCHANGED <<up, clock, cache, reportVars, seen, errors, blank>>

\* A lookup has its answer: the list alone (GetAllVariables), or the values of
\* one variable, which may be none.
ReturnLookup(f) ==
  /\ f[2] = "lookup"
  /\ At(f, "values")
  /\ Goto(f, "ended")
  /\ UNCHANGED <<up, clock, cache, reportVars, seen, values, errors, blank>>

\* Mutation: the error of a call is dropped, and its nil answer used.
CallFailsUnchecked(f) ==
  /\ At(f, "values")
  /\ f[2] # "lookup"
  /\ up' = FALSE
  /\ UNCHANGED <<clock, cache, reportVars, fetchVars, errors, blank>>

\* A call that fails, or a status other than OK that comes with a message.
CallFails(f) ==
  /\ at[f] \in {"ask", "values"} /\ up
  /\ Fail(f)
  /\ UNCHANGED <<up, clock, cache, reportVars, seen, values, blank>>

\* Neither values nor, for a status other than OK, a message: a report has
\* nothing to complete, or no first message, and the panic ends the process.
GetNothing(f) ==
  /\ f[2] # "lookup"
  /\ At(f, "values")
  /\ blank' = blank \cup {f}
  /\ up' = FALSE
  /\ UNCHANGED <<clock, cache, reportVars, fetchVars, errors>>

Other(f) == CHOOSE g \in Both(f[1]) : g # f

Writing == {"storing", "varying"}

(***************************************************************************)
(* A write that begins while the other goroutine is writing is detected,   *)
(* and ends the process, or goes unnoticed.                                *)
(***************************************************************************)
StartWrite(f, from, to) ==
  /\ At(f, from)
  /\ IF at[Other(f)] \in Writing
     THEN /\ raced' = [raced EXCEPT ![f[1]] = TRUE]
          /\ up' \in BOOLEAN
     ELSE UNCHANGED <<raced, up>>
  /\ Goto(f, to)
  /\ UNCHANGED <<clock, cache, main, window, closed, result, seen, values, errors, blank>>

\* After a race the entry may be lost, and the damage may be noticed now.
EndWrite(f, from, to, name) ==
  /\ At(f, from)
  /\ \/ result' = [result EXCEPT ![f[1]] = @ \cup {name}] /\ UNCHANGED up
     \/ raced[f[1]] /\ UNCHANGED result /\ up' \in BOOLEAN
  /\ Goto(f, to)
  /\ UNCHANGED <<clock, cache, main, window, closed, raced, seen, values, errors, blank>>

Store(f) ==
  \/ f \in Rates /\
       \/ StartWrite(f, "store", "storing")
       \/ EndWrite(f, "storing", "vary", "USD A3500")
       \/ StartWrite(f, "vary", "varying")
       \/ EndWrite(f, "varying", "ended", "USD A3500 Variacion")
  \/ f \in Indices /\
       \/ StartWrite(f, "store", "storing")
       \/ EndWrite(f, "storing", "ended", "Inflacion Mensual")

-----------------------------------------------------------------------------
(* The error channel of a report *)

ReceiveError(r, f) ==
  /\ up /\ main[r] = "receive" /\ f \in Both(r) /\ at[f] = "sending"
  /\ main' = [main EXCEPT ![r] = "failed"]
  /\ Goto(f, "ended")
  /\ UNCHANGED <<up, clock, cache, window, closed, result, raced, seen, values, errors, blank>>

\* Mutation: the group has one member too few.
CloseErrChanEarly(r) ==
  /\ up /\ ~closed[r] /\ \E f \in Both(r) : at[f] = "ended"
  /\ closed' = [closed EXCEPT ![r] = TRUE]
  /\ UNCHANGED <<up, clock, cache, main, window, result, raced, fetchVars, errors, blank>>

\* Mutation: only a failure closes the channel.
CloseErrChanOnError(r) ==
  /\ up /\ ~closed[r] /\ \A f \in Both(r) : at[f] = "ended"
  /\ errors # {}
  /\ closed' = [closed EXCEPT ![r] = TRUE]
  /\ UNCHANGED <<up, clock, cache, main, window, result, raced, fetchVars, errors, blank>>

\* wg.Wait(): an error that nobody receives keeps its goroutine in the group.
CloseErrChan(r) ==
  /\ up /\ ~closed[r] /\ \A f \in Both(r) : at[f] = "ended"
  /\ closed' = [closed EXCEPT ![r] = TRUE]
  /\ UNCHANGED <<up, clock, cache, main, window, result, raced, fetchVars, errors, blank>>

\* Mutation: one variable is enough for an answer.
ReceiveCloseEarly(r) ==
  /\ up /\ main[r] = "receive" /\ \E f \in Both(r) : at[f] = "ended"
  /\ main' = [main EXCEPT ![r] = "answered"]
  /\ UNCHANGED <<up, clock, cache, window, closed, result, raced, fetchVars, errors, blank>>

ReceiveClose(r) ==
  /\ up /\ main[r] = "receive" /\ closed[r]
  /\ main' = [main EXCEPT ![r] = "answered"]
  /\ UNCHANGED <<up, clock, cache, window, closed, result, raced, fetchVars, errors, blank>>

Tick ==
  /\ clock < MaxTime
  /\ clock' = clock + 1
  /\ UNCHANGED <<up, cache, reportVars, fetchVars, errors, blank>>

FetchStep(f) ==
  \/ ReadClock(f) \/ GetCached(f) \/ GetVariables(f) \/ ReturnLookup(f) \/ CallFails(f)
  \/ \E q \in Quotes : GetValues(f, q)
  \/ GetNothing(f) \/ Store(f)

ReportStep(r) ==
  \/ \E f \in Both(r) : ReceiveError(r, f)
  \/ CloseErrChan(r) \/ ReceiveClose(r)

Next ==
  \/ \E r \in Reports, w \in Windows : GetReferenceVariables(r, w)
  \/ \E f \in Fetches : Lookup(f) \/ FetchStep(f)
  \/ \E r \in Reports : ReportStep(r)
  \/ Tick

Spec == Init /\ [][Next]_vars

\* Every call to the central bank returns, and goroutines that can go on do.
FairSpec == Spec /\ \A f \in Fetches : WF_vars(FetchStep(f))
                 /\ \A r \in Reports : WF_vars(ReportStep(r))

-----------------------------------------------------------------------------
Stored == [by : Fetches, time : 0 .. MaxTime]

Names == {"USD A3500", "USD A3500 Variacion", "Inflacion Mensual"}

TypeOK ==
  /\ up \in BOOLEAN /\ clock \in 0 .. MaxTime
  /\ cache \in Stored \cup {None}
  /\ main \in [Reports -> {"idle", "receive", "answered", "failed"}]
  /\ window \in [Reports -> Windows \cup {None}]
  /\ closed \in [Reports -> BOOLEAN] /\ raced \in [Reports -> BOOLEAN]
  /\ result \in [Reports -> SUBSET Names]
  /\ at \in [Fetches -> {"idle", "list", "get", "ask", "values", "store", "storing", "vary",
                         "varying", "sending", "ended", "failed"}]
  /\ seen \in [Fetches -> Stored \cup {None}]
  /\ errors \subseteq Fetches /\ blank \subseteq Fetches

(***************************************************************************)
(* A report answered without an error has all of its reference variables,  *)
(* unless its two writers overlapped: a failure of one goroutine is never  *)
(* lost to the close of the channel, and the close never comes too soon.   *)
(***************************************************************************)
AnswerIsWhole ==
  \A r \in Reports :
    main[r] = "answered" /\ ~raced[r] => result[r] = Names

(***************************************************************************)
(* A goroutine blocks for ever on the unbuffered channel only when both    *)
(* fetches of a report failed: the receive takes one of two errors.        *)
(***************************************************************************)
StuckNeedsTwoFailures ==
  \A r \in Reports : main[r] \in {"answered", "failed"} =>
    \A f \in Both(r) : at[f] = "sending" => Both(r) \subseteq errors

(***************************************************************************)
(* An outage of the central bank does not take the process down: it takes  *)
(* an answer with neither values nor a reason, or two overlapping writes.  *)
(***************************************************************************)
OutageIsSurvived == up \/ blank # {} \/ \E r \in Reports : raced[r]

(***************************************************************************)
(* A list that still serves is replaced, if only by the body of an error,  *)
(* by no request that looked for it since it was stored: it takes one that *)
(* was on its way to the central bank by then.                             *)
(***************************************************************************)
ServingListStays ==
  [][\A f \in Fetches : (Serving /\ cache' # cache /\ cache'.by = f) => seen[f] # cache]_vars

(***************************************************************************)
(* Every valuation in an answer is that of the last day the central bank   *)
(* gave a value for, up to it, and a day asked for is left out only if     *)
(* there is no such day or its value is zero.                              *)
(***************************************************************************)
LatestUpTo(q, d) == {e \in DOMAIN q : e <= d /\ \A x \in DOMAIN q : x <= d => x <= e}

FilledForward ==
  \A f \in Rates \cup Indices : at[f] = "store" =>
    LET v == Valuations(f) IN
    \A d \in Asked(f) :
      IF d \in DOMAIN v
      THEN \E e \in LatestUpTo(values[f], d) : v[d] = values[f][e]
      ELSE \A e \in LatestUpTo(values[f], d) : values[f][e] = 0

FirstDay(v) == CHOOSE e \in DOMAIN v : \A x \in DOMAIN v : e <= x

\* The growth of v, as a fraction, from its first day on.
GrowthTo(v, d) == Fraction(v[d], v[FirstDay(v)])

(***************************************************************************)
(* With an interval of one day, the variation a report shows on a day is   *)
(* the growth of the exchange rate since its first value in the report,    *)
(* unless the central bank gave a zero in between: days of no value break  *)
(* the chain of growths, and what happened across the break is left out.   *)
(***************************************************************************)
DailyVariationIsGrowth ==
  \A f \in Rates : (at[f] = "vary" /\ window[f[1]].interval = 1) =>
    LET v == Valuations(f) IN
    \A d \in DOMAIN Variation(f) :
      FirstDay(v) .. d \subseteq DOMAIN v => Plus(Variation(f)[d], Unity) = GrowthTo(v, d)

\* Every report is answered or gets an error, unless the process dies.
ReportAnswered ==
  \A r \in Reports : main[r] = "receive" ~> (main[r] \in {"answered", "failed"} \/ ~up)

-----------------------------------------------------------------------------
(***************************************************************************)
(* The inductive invariant of the safety properties: where the goroutines  *)
(* of a report are, against its channel, its errors and its map.           *)
(***************************************************************************)
ChannelInv(r) ==
  /\ \A f \in Both(r) :
       /\ main[r] = "idle" <=> at[f] = "idle"
       /\ at[f] = "sending" => f \in errors
       /\ f \in errors => at[f] \in {"sending", "ended"}
       /\ (at[f] = "ended" /\ f \in errors) => main[r] = "failed"
       /\ closed[r] => at[f] = "ended"
  /\ main[r] = "answered" => closed[r]
  /\ main[r] = "failed" => \E f \in Both(r) : at[f] = "ended" /\ f \in errors

\* Without a race, what a goroutine has written is in the map.
MapInv(r) ==
  LET rate == <<r, "A3500">>  index == <<r, "inflation">> IN
  ~raced[r] =>
    /\ at[rate] \in {"vary", "varying"} => "USD A3500" \in result[r]
    /\ (at[rate] = "ended" /\ rate \notin errors) =>
         {"USD A3500", "USD A3500 Variacion"} \subseteq result[r]
    /\ (at[index] = "ended" /\ index \notin errors) => "Inflacion Mensual" \in result[r]

\* Lists come from requests that have been at the central bank, and one that is
\* on its way there found none serving that it may take.
CacheInv ==
  LET before == {"idle", "list", "get", "ask"} IN
  /\ cache # None => at[cache.by] \notin before
  /\ \A f \in Fetches : /\ seen[f] # None => at[seen[f].by] \notin before
                        /\ (at[f] = "ask" /\ Serving) => seen[f] # cache

IInv == /\ TypeOK /\ OutageIsSurvived /\ CacheInv
        /\ \A r \in Reports : ChannelInv(r) /\ MapInv(r)

\* What a fetch of a report writes from: its answer, for days its report asked for.
DataInv ==
  /\ values \in [Fetches -> Quotes \cup {None}]
  /\ \A r \in Reports : main[r] # "idle" => window[r] \in Windows
  /\ \A f \in Rates \cup Indices : at[f] \in {"store", "storing", "vary", "varying"} =>
       values[f] \in Quotes /\ DOMAIN values[f] \subseteq Asked(f)
=============================================================================
