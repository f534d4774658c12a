------------------------------ MODULE EscoFetch ------------------------------
(***************************************************************************)
(* One call of ESCOService.GetAccountStateWithTransactions.                *)
(*                                                                         *)
(* Two goroutines share the function's variable err: one fetches the       *)
(* holdings day by day (GetAccountStateDateRange), the other the           *)
(* transactions of the range (GetCtaCteConsolidadoDateRange, retried).     *)
(* GetAccountStateDateRange in turn starts one goroutine a day, and all of *)
(* them share its variable err: each writes it when its call returns, and  *)
(* reads it back in later steps.  A read of a shared variable is a step of *)
(* its own wherever another goroutine can write in between.  These races   *)
(* are undefined in Go: the check right after a call may read memory, or   *)
(* the result the compiler kept in a register, and both are allowed here.  *)
(* Of an error only whether it is nil is kept, which is one machine word.  *)
(***************************************************************************)
EXTENDS Naturals, Sequences, FiniteSets

CONSTANTS
  Days,       \* the days of the range, one goroutine each
  Retries,    \* attempts of every retried call: 3 in the code
  CountUpTo   \* bound on the failure counter, which saturates there

ASSUME FetchAssumption ==
  /\ IsFiniteSet(Days) /\ Days # {}
  /\ Retries \in Nat \ {0}
  /\ CountUpTo \in Nat /\ CountUpTo >= Retries

VARIABLES
  \* GetAccountStateDateRange and its goroutines
  rangePc,   \* the goroutine that runs it
  dayPc,     \* the goroutine of each day
  left,      \* retries the goroutine of a day has left
  answered,  \* did the last call for the day return data?
  dayErr,    \* its err, shared by all days: is it non-nil?
  errChan,   \* whether each error sent is non-nil, in order of arrival
  got,       \* days whose account state is in assetChan
  rangeErr,  \* is the error it returns non-nil?
  \* the transactions' goroutine
  txPc, txLeft,
  \* GetAccountStateWithTransactions
  err,       \* its err, shared by both goroutines: is it non-nil?
  isNil,     \* is accountState nil?
  state,     \* the days whose holdings are in accountState
  withTx,    \* instrumentos: were the transactions received?
  outcome,   \* what the caller sees
  \* history
  failures,  \* calls that failed, up to CountUpTo
  noAccount, \* did GetAccountByID fail?  It is not retried
  unparsed   \* the days whose answer did not parse, which is not retried either

dayVars   == <<dayPc, left, answered, dayErr, errChan, got>>
rangeVars == <<rangePc, rangeErr>>
txVars    == <<txPc, txLeft>>
resVars   == <<err, isNil, state, withTx>>
history   == <<failures, noAccount, unparsed>>
vars == <<dayVars, rangeVars, txVars, resVars, outcome, history>>

Init ==
  /\ rangePc = "account" /\ rangeErr = FALSE
  /\ dayPc = [d \in Days |-> "none"]
  /\ left = [d \in Days |-> Retries]
  /\ answered = [d \in Days |-> FALSE]
  /\ dayErr = FALSE /\ errChan = <<>> /\ got = {}
  /\ txPc = "call" /\ txLeft = Retries
  /\ err = FALSE /\ isNil = TRUE /\ state = {} /\ withTx = FALSE
  /\ outcome = "none"
  /\ failures = 0 /\ noAccount = FALSE /\ unparsed = {}

Failed(b) == failures' = IF b /\ failures < CountUpTo THEN failures + 1 ELSE failures

-----------------------------------------------------------------------------
(* GetAccountStateDateRange *)

\* GetAccountByID is called once; if it fails the account state stays nil.
GetAccountByID ==
  /\ rangePc = "account"
  /\ \/ /\ rangePc' = "collect"
        /\ dayPc' = [d \in Days |-> "call"]
        /\ UNCHANGED <<rangeErr, noAccount>>
     \/ /\ rangePc' = "return"
        /\ rangeErr' = TRUE
        /\ noAccount' = TRUE
        /\ UNCHANGED dayPc
  /\ UNCHANGED <<left, answered, dayErr, errChan, got, txVars, resVars,
                 outcome, failures, unparsed>>

\* The call returns data, an error, or neither (the broker answered "null").
GetEstadoCuenta(d) ==
  /\ dayPc[d] = "call"
  /\ \E answer \in {"data", "error", "null"} :
       /\ answered' = [answered EXCEPT ![d] = answer = "data"]
       /\ dayErr' = (answer = "error")
       /\ Failed(answer # "data")
  /\ dayPc' = [dayPc EXCEPT ![d] = "check"]
  /\ UNCHANGED <<left, errChan, got, rangeVars, txVars, resVars, outcome, noAccount, unparsed>>

\* if err != nil || accStateData == nil.  A failed call left no data, so the
\* err that can mislead is another day's failure, seen after a success.
SeesFailure(d) == dayErr \/ ~answered[d]
SeesSuccess(d) == answered[d]

\* Mutation: the retries are not counted down.
CheckAnswerUncounted(d) ==
  /\ dayPc[d] = "check"
  /\ \/ SeesFailure(d) /\ dayPc' = [dayPc EXCEPT ![d] = "sleep"]
     \/ SeesSuccess(d) /\ dayPc' = [dayPc EXCEPT ![d] = "parse"]
  /\ UNCHANGED <<left, answered, dayErr, errChan, got, rangeVars, txVars, resVars,
                 outcome, history>>

CheckAnswer(d) ==
  /\ dayPc[d] = "check"
  /\ \/ /\ SeesFailure(d)
        /\ left' = [left EXCEPT ![d] = @ - 1]
        /\ dayPc' = [dayPc EXCEPT ![d] = "sleep"]
     \/ /\ SeesSuccess(d)
        /\ dayPc' = [dayPc EXCEPT ![d] = "parse"]
        /\ UNCHANGED left
  /\ UNCHANGED <<answered, dayErr, errChan, got, rangeVars, txVars, resVars,
                 outcome, history>>

\* Mutation: the loop goes on when no retries are left.
RetryAlways(d) ==
  /\ dayPc[d] = "sleep"
  /\ dayPc' = [dayPc EXCEPT ![d] = "call"]
  /\ UNCHANGED <<left, answered, dayErr, errChan, got, rangeVars, txVars, resVars,
                 outcome, history>>

Retry(d) ==
  /\ dayPc[d] = "sleep"
  /\ left[d] > 0
  /\ dayPc' = [dayPc EXCEPT ![d] = "call"]
  /\ UNCHANGED <<left, answered, dayErr, errChan, got, rangeVars, txVars, resVars,
                 outcome, history>>

\* Mutation: an attempt is given away.
GiveUpEarly(d) ==
  /\ dayPc[d] = "sleep"
  /\ left[d] <= 1
  /\ Len(errChan) < Cardinality(Days)
  /\ errChan' = Append(errChan, dayErr)
  /\ dayPc' = [dayPc EXCEPT ![d] = "end"]
  /\ UNCHANGED <<left, answered, dayErr, got, rangeVars, txVars, resVars,
                 outcome, history>>

\* The error sent is the value of err at this moment, nil included.
GiveUp(d) ==
  /\ dayPc[d] = "sleep"
  /\ left[d] = 0
  /\ Len(errChan) < Cardinality(Days)
  /\ errChan' = Append(errChan, dayErr)
  /\ dayPc' = [dayPc EXCEPT ![d] = "end"]
  /\ UNCHANGED <<left, answered, dayErr, got, rangeVars, txVars, resVars,
                 outcome, history>>

\* Parsing uses an err of its own; a malformed date in the answer fails it.
ParseEstado(d) ==
  /\ dayPc[d] = "parse"
  /\ \/ /\ got' = got \cup {d}
        /\ UNCHANGED <<errChan, unparsed>>
     \/ /\ Len(errChan) < Cardinality(Days)
        /\ errChan' = Append(errChan, TRUE)
        /\ unparsed' = unparsed \cup {d}
        /\ UNCHANGED got
  /\ dayPc' = [dayPc EXCEPT ![d] = "end"]
  /\ UNCHANGED <<left, answered, dayErr, rangeVars, txVars, resVars,
                 outcome, failures, noAccount>>

\* All days done, channels closed: the error returned is the first one sent.
CollectDays ==
  /\ rangePc = "collect"
  /\ \A d \in Days : dayPc[d] = "end"
  /\ rangeErr' = (errChan # <<>> /\ Head(errChan))
  /\ rangePc' = "return"
  /\ UNCHANGED <<dayVars, txVars, resVars, outcome, history>>

-----------------------------------------------------------------------------
(* GetAccountStateWithTransactions *)

\* accountState, err = s.GetAccountStateDateRange(...)
RangeReturns ==
  /\ rangePc = "return"
  /\ isNil' = (\A d \in Days : dayPc[d] = "none")
  /\ state' = got
  /\ err' = rangeErr
  /\ rangePc' = "end"
  /\ UNCHANGED <<dayVars, rangeErr, txVars, withTx, outcome, history>>

\* instrumentos, err = s.GetCtaCteConsolidadoDateRange(...)
GetCtaCteConsolidado ==
  /\ txPc = "call"
  /\ \E ok \in BOOLEAN : withTx' = ok /\ err' = ~ok /\ Failed(~ok)
  /\ txPc' = "check"
  /\ UNCHANGED <<dayVars, rangeVars, txLeft, isNil, state, outcome, noAccount, unparsed>>

\* Mutation: the call is made once.
CheckCtaCteOnce ==
  /\ txPc = "check"
  /\ txPc' = "end"
  /\ UNCHANGED <<dayVars, rangeVars, txLeft, resVars, outcome, history>>

\* if err != nil, where err may be the one the other goroutine just wrote.
CheckCtaCte ==
  /\ txPc = "check"
  /\ \E seen \in {err, ~withTx} :
       /\ txLeft' = IF seen THEN txLeft - 1 ELSE txLeft
       /\ txPc' = IF seen /\ txLeft' > 0 THEN "call" ELSE "end"
  /\ UNCHANGED <<dayVars, rangeVars, resVars, outcome, history>>

Return ==
  /\ outcome = "none"
  /\ rangePc = "end" /\ txPc = "end"
  /\ outcome' = IF err \/ isNil THEN "error" ELSE "ok"
  /\ UNCHANGED <<dayVars, rangeVars, txVars, resVars, history>>

DayStep(d) == \/ GetEstadoCuenta(d) \/ CheckAnswer(d) \/ Retry(d)
              \/ GiveUp(d) \/ ParseEstado(d)

RangeStep == GetAccountByID \/ CollectDays \/ RangeReturns

TxStep == GetCtaCteConsolidado \/ CheckCtaCte

Next == (\E d \in Days : DayStep(d)) \/ RangeStep \/ TxStep \/ Return

Spec == Init /\ [][Next]_vars

\* Every HTTP call returns and every goroutine that can run is scheduled.
FairSpec == /\ Spec
            /\ \A d \in Days : WF_vars(DayStep(d))
            /\ WF_vars(RangeStep) /\ WF_vars(TxStep) /\ WF_vars(Return)

-----------------------------------------------------------------------------
TypeOK ==
  /\ rangePc \in {"account", "collect", "return", "end"}
  /\ dayPc \in [Days -> {"none", "call", "check", "sleep", "parse", "end"}]
  /\ left \in [Days -> 0 .. Retries]
  /\ answered \in [Days -> BOOLEAN]
  /\ dayErr \in BOOLEAN /\ rangeErr \in BOOLEAN /\ err \in BOOLEAN
  /\ errChan \in Seq(BOOLEAN) /\ Len(errChan) <= Cardinality(Days)
  /\ got \subseteq Days
  /\ txPc \in {"call", "check", "end"} /\ txLeft \in 0 .. Retries
  /\ isNil \in BOOLEAN /\ state \subseteq Days
  /\ withTx \in BOOLEAN /\ noAccount \in BOOLEAN /\ unparsed \subseteq Days
  /\ outcome \in {"none", "ok", "error"}
  /\ failures \in 0 .. CountUpTo

Few == failures < Retries /\ ~noAccount /\ unparsed = {}

\* Fewer failed calls than one call may retry never cost the caller a day or
\* the whole answer, however the goroutines overwrite each other's err.
FewFailuresKeepHoldings ==
  (outcome # "none" /\ Few) => outcome = "ok" /\ state = Days

\* In a state returned as a success, a day is missing only after all the
\* retries of its own call were used, or if its own answer did not parse:
\* what happens to one day never costs another.
OnlyExhaustedDaysDropped ==
  outcome = "ok" => \A d \in Days \ state : left[d] = 0 \/ d \in unparsed

\* The call returns: no goroutine waits for ever on a channel or WaitGroup.
FetchReturns == <>(outcome # "none")

\* When the transactions could not be fetched, the caller gets an error.
LostTransactionsAreAnError == ~withTx => outcome # "ok"

-----------------------------------------------------------------------------
(***************************************************************************)
(* The inductive invariant.  Its core: as long as failures are few, every  *)
(* retry used up was paid for by a failure of its own, though the err that *)
(* was checked may have been that of another goroutine.                    *)
(***************************************************************************)
Bad(b) == IF b THEN 1 ELSE 0

ControlInv ==
  /\ rangePc = "account" => \A d \in Days : dayPc[d] = "none"
  /\ rangePc = "collect" => \A d \in Days : dayPc[d] # "none"
  /\ rangePc \in {"return", "end"} =>
       \/ noAccount /\ \A d \in Days : dayPc[d] = "none"
       \/ \A d \in Days : dayPc[d] = "end"
  /\ \A d \in Days : dayPc[d] \in {"none", "call", "check", "parse"} => left[d] > 0
  /\ txPc # "end" => txLeft > 0
  /\ outcome # "none" => rangePc = "end" /\ txPc = "end"

\* A day without data has used its retries, or its answer failed to parse.
DroppedInv ==
  /\ \A d \in Days : dayPc[d] = "end" => d \in got \/ left[d] = 0 \/ d \in unparsed
  /\ rangePc = "end" => isNil \/ \A d \in Days \ state : left[d] = 0 \/ d \in unparsed
  /\ outcome = "ok" => ~isNil

\* Retries spent on day d, the one its next check will spend included.
SpentOn(d) == Retries - left[d] + Bad(dayPc[d] = "check" /\ SeesFailure(d))

SpentOnMovements == Retries - txLeft + Bad(txPc = "check" /\ (err \/ ~withTx))

FewInv ==
  Few =>
    /\ \A d \in Days : SpentOn(d) <= failures
    /\ SpentOnMovements <= failures
    /\ errChan = <<>> /\ ~rangeErr
    /\ \A d \in Days : dayPc[d] = "end" => d \in got
    /\ rangePc = "end" => state = Days /\ ~isNil
    /\ err => ~withTx
    /\ txPc = "end" => ~err
    /\ outcome \in {"none", "ok"}

IInv == TypeOK /\ ControlInv /\ DroppedInv /\ FewInv
=============================================================================
