--------------------------- MODULE EscoFetchProofs ---------------------------
(***************************************************************************)
(* What a broker fetch guarantees for every range of days and every number *)
(* of retries: with fewer failures than retries it delivers every day, and *)
(* it never reports a success without a day that had retries left.         *)
(*                                                                         *)
(* The proofs follow the actions: each conjunct of IInv is preserved by    *)
(* the steps of one goroutine at a time.                                   *)
(***************************************************************************)
EXTENDS EscoFetch, FiniteSetTheorems, TLAPS

\* What a check may see is expanded throughout.
USE DEF SeesFailure, SeesSuccess

\* Bad counts one retry that a check will spend, or none.
LEMMA BadIsBit == \A b \in BOOLEAN : Bad(b) \in {0, 1} /\ (b => Bad(b) = 1) /\ (~b => Bad(b) = 0)
  BY DEF Bad

\* The number of days bounds the error channel, and is a number.
LEMMA DaysCounted == Cardinality(Days) \in Nat
  BY FetchAssumption, FS_CardinalityType

\* Sending one more value to a channel with room.
LEMMA AppendFits ==
  ASSUME NEW S, NEW s \in Seq(S), NEW x \in S, NEW n \in Nat, Len(s) < n
  PROVE  Append(s, x) \in Seq(S) /\ Len(Append(s, x)) <= n
  OBVIOUS

\* The invariant holds before the first call.
LEMMA InitIInv == Init => IInv
  <1> SUFFICES ASSUME Init PROVE IInv
    OBVIOUS
  <1>1. TypeOK
    <2>1. errChan \in Seq(BOOLEAN) /\ Len(errChan) <= Cardinality(Days)
      BY DaysCounted DEF Init
    <2>2. /\ dayPc \in [Days -> {"none", "call", "check", "sleep", "parse", "end"}]
          /\ left \in [Days -> 0 .. Retries]
          /\ txLeft \in 0 .. Retries /\ failures \in 0 .. CountUpTo
      BY FetchAssumption DEF Init
    <2>3. answered \in [Days -> BOOLEAN]
      BY Zenon DEF Init
    <2>4. QED
      BY <2>1, <2>2, <2>3, Zenon DEF Init, TypeOK
  <1>2. ControlInv /\ DroppedInv
    BY FetchAssumption DEF Init, ControlInv, DroppedInv
  <1>3. FewInv
    <2>1. \A d \in Days : SpentOn(d) <= failures
      BY FetchAssumption DEF Init, SpentOn, Bad
    <2>2. SpentOnMovements <= failures
      BY FetchAssumption DEF Init, SpentOnMovements, Bad
    <2>3. QED
      BY <2>1, <2>2 DEF Init, FewInv
  <1>4. QED
    BY <1>1, <1>2, <1>3 DEF IInv

-----------------------------------------------------------------------------
\* Every step of a day's goroutine keeps the types.
LEMMA DayTypes ==
  ASSUME IInv, NEW d \in Days, DayStep(d)
  PROVE  TypeOK'
  <1> USE DEF IInv, TypeOK
  <1>1. CASE GetEstadoCuenta(d)
    <2>1. PICK answer \in {"data", "error", "null"} :
            /\ answered' = [answered EXCEPT ![d] = answer = "data"]
            /\ dayErr' = (answer = "error")
            /\ Failed(answer # "data")
      BY <1>1, Zenon DEF GetEstadoCuenta
    <2>2. dayErr' \in BOOLEAN /\ answered' \in [Days -> BOOLEAN]
      BY <2>1, Zenon
    <2>3. failures' \in 0 .. CountUpTo
      BY <2>1, FetchAssumption DEF Failed
    <2>4. /\ dayPc' \in [Days -> {"none", "call", "check", "sleep", "parse", "end"}]
          /\ UNCHANGED <<left, errChan, got, rangePc, rangeErr, txPc, txLeft,
                         err, isNil, state, withTx, outcome, noAccount, unparsed>>
      BY <1>1 DEF GetEstadoCuenta, rangeVars, txVars, resVars
    <2>5. QED
      BY <2>2, <2>3, <2>4, Zenon
  <1>2. CASE CheckAnswer(d)
    <2>1. dayErr \/ ~answered[d] => left[d] - 1 \in 0 .. Retries
      BY <1>2, FetchAssumption DEF CheckAnswer, ControlInv
    <2>2. /\ left' \in [Days -> 0 .. Retries]
          /\ dayPc' \in [Days -> {"none", "call", "check", "sleep", "parse", "end"}]
      BY <1>2, <2>1 DEF CheckAnswer
    <2>3. UNCHANGED <<answered, dayErr, errChan, got, rangePc, rangeErr, txPc, txLeft,
                      err, isNil, state, withTx, outcome, failures, noAccount, unparsed>>
      BY <1>2 DEF CheckAnswer, rangeVars, txVars, resVars, history
    <2>4. QED
      BY <2>2, <2>3, ZenonT(30)
  <1>3. CASE Retry(d)
    BY <1>3 DEF Retry, rangeVars, txVars, resVars, history
  <1>4. CASE GiveUp(d)
    <2>1. errChan' = Append(errChan, dayErr) /\ Len(errChan) < Cardinality(Days)
      BY <1>4 DEF GiveUp
    <2>2. errChan' \in Seq(BOOLEAN) /\ Len(errChan') <= Cardinality(Days)
      BY <2>1, DaysCounted, AppendFits, Zenon
    <2>3. /\ dayPc' \in [Days -> {"none", "call", "check", "sleep", "parse", "end"}]
          /\ UNCHANGED <<left, answered, dayErr, got, rangePc, rangeErr, txPc, txLeft,
                         err, isNil, state, withTx, outcome, failures, noAccount, unparsed>>
      BY <1>4 DEF GiveUp, rangeVars, txVars, resVars, history
    <2>4. QED
      BY <2>2, <2>3, ZenonT(30)
  <1>5. CASE ParseEstado(d)
    <2>1. unparsed' \subseteq Days
      BY <1>5 DEF ParseEstado
    <2>2. errChan' \in Seq(BOOLEAN) /\ Len(errChan') <= Cardinality(Days)
      <3>1. \/ errChan' = errChan
            \/ errChan' = Append(errChan, TRUE) /\ Len(errChan) < Cardinality(Days)
        BY <1>5 DEF ParseEstado
      <3>2. QED
        BY <3>1, DaysCounted, AppendFits, Zenon
    <2>3. got' \subseteq Days
      BY <1>5 DEF ParseEstado
    <2>4. /\ dayPc' \in [Days -> {"none", "call", "check", "sleep", "parse", "end"}]
          /\ UNCHANGED <<left, answered, dayErr, rangePc, rangeErr, txPc, txLeft,
                         err, isNil, state, withTx, outcome, failures, noAccount>>
      BY <1>5 DEF ParseEstado, rangeVars, txVars, resVars
    <2>5. QED
      BY <2>1, <2>2, <2>3, <2>4, Zenon
  <1>6. QED
    BY <1>1, <1>2, <1>3, <1>4, <1>5 DEF DayStep

\* Every other step keeps the types.
LEMMA OtherTypes ==
  ASSUME IInv, RangeStep \/ TxStep \/ Return
  PROVE  TypeOK'
  <1> USE DEF IInv, TypeOK
  <1>1. CASE GetAccountByID
    BY <1>1 DEF GetAccountByID, txVars, resVars
  <1>2. CASE CollectDays
    <2>1. (errChan # <<>> /\ Head(errChan)) \in BOOLEAN
      OBVIOUS
    <2>2. QED
      BY <1>2, <2>1 DEF CollectDays, dayVars, txVars, resVars, history
  <1>3. CASE RangeReturns
    BY <1>3 DEF RangeReturns, dayVars, txVars, history
  <1>4. CASE GetCtaCteConsolidado
    <2>1. PICK ok \in BOOLEAN : withTx' = ok /\ err' = ~ok /\ Failed(~ok)
      BY <1>4, Zenon DEF GetCtaCteConsolidado
    <2>2. withTx' \in BOOLEAN /\ err' \in BOOLEAN
      BY <2>1, Zenon
    <2>3. failures' \in 0 .. CountUpTo
      BY <2>1, FetchAssumption DEF Failed
    <2>4. /\ txPc' = "check"
          /\ UNCHANGED <<dayPc, left, answered, dayErr, errChan, got, rangePc,
                         rangeErr, txLeft, isNil, state, outcome, noAccount, unparsed>>
      BY <1>4 DEF GetCtaCteConsolidado, dayVars, rangeVars
    <2>5. QED
      BY <2>2, <2>3, <2>4, Zenon
  <1>5. CASE CheckCtaCte
    <2>1. txLeft - 1 \in 0 .. Retries
      BY <1>5, FetchAssumption DEF CheckCtaCte, ControlInv
    <2>2. QED
      BY <1>5, <2>1 DEF CheckCtaCte, dayVars, rangeVars, resVars, history
  <1>6. CASE Return
    BY <1>6 DEF Return, dayVars, rangeVars, txVars, resVars, history
  <1>7. QED
    BY <1>1, <1>2, <1>3, <1>4, <1>5, <1>6 DEF RangeStep, TxStep

-----------------------------------------------------------------------------
\* The positions of the goroutines stay consistent.
LEMMA ControlKept ==
  ASSUME IInv, Next
  PROVE  ControlInv'
  <1> USE DEF IInv, TypeOK, ControlInv
  <1>1. ASSUME NEW d \in Days, DayStep(d) PROVE ControlInv'
    <2>1. /\ rangePc = "collect"
          /\ UNCHANGED <<rangePc, txPc, txLeft, outcome>>
          /\ noAccount' = noAccount
      BY <1>1 DEF DayStep, GetEstadoCuenta, CheckAnswer, Retry, GiveUp, ParseEstado,
                  rangeVars, txVars, history
    <2>2. /\ dayPc'[d] # "none"
          /\ dayPc'[d] \in {"none", "call", "check", "parse"} => left'[d] > 0
          /\ \A e \in Days \ {d} : dayPc'[e] = dayPc[e] /\ left'[e] = left[e]
      BY <1>1, FetchAssumption
      DEF DayStep, GetEstadoCuenta, CheckAnswer, Retry, GiveUp, ParseEstado
    <2>3. QED
      BY <2>1, <2>2
  <1>2. CASE RangeStep
    <2>1. CASE GetAccountByID
      <3>1. noAccount' = TRUE \/ rangePc' = "collect"
        BY <2>1 DEF GetAccountByID
      <3>2. QED
        BY <2>1, <3>1, FetchAssumption DEF GetAccountByID, txVars
    <2>2. CASE CollectDays
      BY <2>2 DEF CollectDays, dayVars, txVars, history
    <2>3. CASE RangeReturns
      BY <2>3 DEF RangeReturns, dayVars, txVars, history
    <2>4. QED
      BY <1>2, <2>1, <2>2, <2>3 DEF RangeStep
  <1>3. CASE TxStep
    BY <1>3, FetchAssumption
    DEF TxStep, GetCtaCteConsolidado, CheckCtaCte, dayVars, rangeVars, history
  <1>4. CASE Return
    BY <1>4 DEF Return, dayVars, rangeVars, txVars, history
  <1>5. QED
    BY <1>1, <1>2, <1>3, <1>4 DEF Next

\* A day is only ever dropped after its retries, or by a failure to parse.
LEMMA DroppedKept ==
  ASSUME IInv, Next
  PROVE  DroppedInv'
  <1> USE DEF IInv, TypeOK, ControlInv, DroppedInv
  <1>1. ASSUME NEW d \in Days, DayStep(d) PROVE DroppedInv'
    BY <1>1, FetchAssumption
    DEF DayStep, GetEstadoCuenta, CheckAnswer, Retry, GiveUp, ParseEstado,
        rangeVars, resVars, history
  <1>2. CASE RangeStep
    BY <1>2, FetchAssumption
    DEF RangeStep, GetAccountByID, CollectDays, RangeReturns, dayVars, txVars,
        resVars, history
  <1>3. CASE TxStep
    BY <1>3 DEF TxStep, GetCtaCteConsolidado, CheckCtaCte, dayVars, rangeVars,
                resVars, history
  <1>4. CASE Return
    BY <1>4 DEF Return, dayVars, rangeVars, resVars, history
  <1>5. QED
    BY <1>1, <1>2, <1>3, <1>4 DEF Next

-----------------------------------------------------------------------------
\* Failures only grow: what is few after a step was few before it.
LEMMA FewWasFew ==
  ASSUME IInv, Next, Few'
  PROVE  Few /\ failures < CountUpTo
  <1>1. /\ noAccount' = noAccount \/ noAccount' = TRUE
        /\ unparsed \subseteq unparsed' /\ failures' \in {failures, failures + 1}
    <2>1. ASSUME NEW d \in Days, DayStep(d)
          PROVE  /\ noAccount' = noAccount \/ noAccount' = TRUE
        /\ unparsed \subseteq unparsed' /\ failures' \in {failures, failures + 1}
      <3>1. CASE GetEstadoCuenta(d)
        BY <3>1 DEF GetEstadoCuenta, Failed
      <3>2. CASE ParseEstado(d)
        BY <3>2 DEF ParseEstado
      <3>3. CASE CheckAnswer(d) \/ Retry(d) \/ GiveUp(d)
        BY <3>3 DEF CheckAnswer, Retry, GiveUp, history
      <3>4. QED
        BY <2>1, <3>1, <3>2, <3>3 DEF DayStep
    <2>2. CASE RangeStep
      BY <2>2 DEF RangeStep, GetAccountByID, CollectDays, RangeReturns, history
    <2>3. CASE TxStep
      BY <2>3 DEF TxStep, GetCtaCteConsolidado, CheckCtaCte, Failed, history
    <2>4. CASE Return
      BY <2>4 DEF Return, history
    <2>5. QED
      BY <2>1, <2>2, <2>3, <2>4 DEF Next
  <1>2. failures \in Nat /\ failures' < Retries /\ ~noAccount' /\ unparsed' = {}
    BY FetchAssumption DEF IInv, TypeOK, Few
  <1>3. QED
    BY <1>1, <1>2, FetchAssumption DEF Few

\* The retries spent on a day before and after a step that leaves its counter.
LEMMA SpentBounds ==
  ASSUME IInv, NEW d \in Days
  PROVE  /\ SpentOn(d) \in Nat
         /\ Retries - left[d] <= SpentOn(d)
         /\ SpentOn(d) <= Retries - left[d] + 1
         /\ dayPc[d] = "check" /\ (dayErr \/ ~answered[d]) => SpentOn(d) = Retries - left[d] + 1
         /\ ~(dayPc[d] = "check" /\ (dayErr \/ ~answered[d])) => SpentOn(d) = Retries - left[d]
  BY FetchAssumption DEF IInv, TypeOK, SpentOn, Bad

\* A call for a day pays for every retry that its result makes a check spend.
LEMMA FewKeptByCall ==
  ASSUME IInv, Next, Few', NEW d \in Days, GetEstadoCuenta(d)
  PROVE  \A e \in Days : SpentOn(e)' <= failures'
  <1> SUFFICES ASSUME NEW e \in Days PROVE SpentOn(e)' <= failures'
    OBVIOUS
  <1>1. SpentOn(e) <= failures /\ failures < CountUpTo
    BY FewWasFew DEF IInv, FewInv
  <1>2. PICK answer \in {"data", "error", "null"} :
          /\ answered' = [answered EXCEPT ![d] = answer = "data"]
          /\ dayErr' = (answer = "error")
          /\ Failed(answer # "data")
    BY Zenon DEF GetEstadoCuenta
  <1>3. left' = left /\ left[e] \in 0 .. Retries /\ failures \in Nat /\ Retries \in Nat
    BY FetchAssumption DEF GetEstadoCuenta, IInv, TypeOK
  <1>4. CASE answer = "data"
    <2>1. failures' = failures /\ ~dayErr'
      BY <1>2, <1>4 DEF Failed
    <2>2. answered'[d] /\ (e # d => answered'[e] = answered[e] /\ dayPc'[e] = dayPc[e])
      BY <1>2, <1>4 DEF GetEstadoCuenta, IInv, TypeOK
    <2>3. SpentOn(e)' <= SpentOn(e)
      BY <1>3, <2>1, <2>2 DEF SpentOn, Bad
    <2>4. QED
      BY <1>1, <1>3, <2>1, <2>3, SpentBounds DEF SpentOn, Bad
  <1>5. CASE answer # "data"
    <2>1. failures' = failures + 1
      BY <1>1, <1>2, <1>5 DEF Failed
    <2>2. SpentOn(e)' <= SpentOn(e) + 1
      BY <1>3 DEF SpentOn, Bad
    <2>3. SpentOn(e) \in Nat /\ SpentOn(e)' \in Int
      BY <1>3, SpentBounds DEF SpentOn, Bad
    <2>4. QED
      BY <1>1, <1>3, <2>1, <2>2, <2>3
  <1>6. QED
    BY <1>4, <1>5

\* While failures are few, a day's goroutine neither gives up nor loses its day.
LEMMA FewKeptByDay ==
  ASSUME IInv, Next, Few', NEW d \in Days, DayStep(d)
  PROVE  FewInv'
  <1>1. Few /\ failures < CountUpTo
    BY FewWasFew
  <1>2. /\ \A e \in Days : SpentOn(e) <= failures
        /\ SpentOnMovements <= failures
        /\ errChan = <<>> /\ ~rangeErr
        /\ \A e \in Days : dayPc[e] = "end" => e \in got
        /\ err => ~withTx
        /\ txPc = "end" => ~err
        /\ outcome \in {"none", "ok"}
    BY <1>1 DEF IInv, FewInv
  <1>3. /\ failures \in Nat /\ Retries \in Nat /\ failures < Retries
        /\ left \in [Days -> 0 .. Retries] /\ txLeft \in 0 .. Retries
    BY <1>1, FetchAssumption DEF IInv, TypeOK, Few
  <1>4. rangePc = "collect"
    BY DEF IInv, TypeOK, ControlInv, DayStep, GetEstadoCuenta, CheckAnswer, Retry,
           GiveUp, ParseEstado
  <1>5. UNCHANGED <<rangePc, rangeErr, txPc, txLeft, err, isNil, state, withTx, outcome>>
    BY DEF DayStep, GetEstadoCuenta, CheckAnswer, Retry, GiveUp, ParseEstado,
           rangeVars, txVars, resVars
  <1>6. ASSUME NEW e \in Days PROVE SpentOn(e)' <= failures'
    <2>1. CASE GetEstadoCuenta(d)
      BY <2>1, FewKeptByCall
    <2>2. CASE CheckAnswer(d)
      <3>1. failures' = failures /\ UNCHANGED <<dayErr, answered>>
        BY <2>2 DEF CheckAnswer, history
      <3>2. SpentOn(e)' <= SpentOn(e)
        <4>1. CASE e = d
          <5>1. /\ dayPc[d] = "check" /\ dayPc'[d] # "check"
                /\ \/ SeesFailure(d) /\ left'[d] = left[d] - 1
                   \/ left'[d] = left[d]
            BY <1>3, <2>2 DEF CheckAnswer, IInv, TypeOK
          <5>2. QED
            BY <1>3, <4>1, <5>1 DEF SpentOn, Bad
        <4>2. CASE e # d
          <5>1. dayPc'[e] = dayPc[e] /\ left'[e] = left[e]
            BY <1>3, <2>2, <4>2 DEF CheckAnswer, IInv, TypeOK
          <5>2. SeesFailure(e)' <=> SeesFailure(e)
            BY <3>1 DEF SeesFailure
          <5>3. QED
            BY <1>3, <5>1, <5>2 DEF SpentOn, Bad
        <4>3. QED
          BY <4>1, <4>2
      <3>3. SpentOn(e)' \in Int /\ SpentOn(e) \in Int
        BY <1>3, <2>2 DEF CheckAnswer, SpentOn, Bad, IInv, TypeOK
      <3>4. QED
        BY <1>2, <1>3, <3>1, <3>2, <3>3
    <2>3. CASE Retry(d) \/ GiveUp(d) \/ ParseEstado(d)
      <3>1. UNCHANGED <<failures, dayErr, answered, left>>
        BY <2>3 DEF Retry, GiveUp, ParseEstado, history
      <3>2. dayPc'[e] = "check" => dayPc[e] = "check"
        BY <2>3 DEF Retry, GiveUp, ParseEstado, IInv, TypeOK
      <3>3. SpentOn(e)' <= SpentOn(e) /\ SpentOn(e) \in Int /\ SpentOn(e)' \in Int
        BY <1>3, <3>1, <3>2 DEF SpentOn, Bad
      <3>4. QED
        BY <1>2, <1>3, <3>1, <3>3
    <2>4. QED
      BY <2>1, <2>2, <2>3 DEF DayStep
  <1>7. failures <= failures' /\ failures' \in Nat
    <2>1. CASE GetEstadoCuenta(d)
      <3>1. failures' \in {failures, failures + 1}
        BY <2>1 DEF GetEstadoCuenta, Failed
      <3>2. QED
        BY <1>3, <3>1
    <2>2. CASE CheckAnswer(d) \/ Retry(d) \/ GiveUp(d) \/ ParseEstado(d)
      <3>1. failures' = failures
        BY <2>2 DEF CheckAnswer, Retry, GiveUp, ParseEstado, history
      <3>2. QED
        BY <1>3, <3>1
    <2>3. QED
      BY <2>1, <2>2 DEF DayStep
  <1>8. SpentOnMovements' <= failures'
    BY <1>2, <1>3, <1>5, <1>7 DEF SpentOnMovements, Bad
  <1>9. ~GiveUp(d)
    BY <1>2, <1>3, SpentBounds DEF GiveUp
  <1>10. errChan' = <<>> /\ (dayPc'[d] = "end" => d \in got') /\ got \subseteq got'
    BY <1>2, <1>9 DEF DayStep, GetEstadoCuenta, CheckAnswer, Retry, ParseEstado,
                      Few, IInv, TypeOK
  <1>11. \A e \in Days : dayPc'[e] = "end" => e \in got'
    <2>1. \A e \in Days \ {d} : dayPc'[e] = dayPc[e]
      BY DEF DayStep, GetEstadoCuenta, CheckAnswer, Retry, GiveUp, ParseEstado,
             IInv, TypeOK
    <2>2. QED
      BY <1>2, <1>10, <2>1
  <1>12. QED
    BY <1>2, <1>4, <1>5, <1>6, <1>8, <1>10, <1>11, Zenon DEF FewInv

\* Neither do the steps of the other goroutines hurt while failures are few.
LEMMA FewKeptByOthers ==
  ASSUME IInv, Next, Few', RangeStep \/ TxStep \/ Return
  PROVE  FewInv'
  <1>1. Few /\ failures < CountUpTo
    BY FewWasFew
  <1>2. /\ \A e \in Days : SpentOn(e) <= failures
        /\ SpentOnMovements <= failures
        /\ errChan = <<>> /\ ~rangeErr
        /\ \A e \in Days : dayPc[e] = "end" => e \in got
        /\ rangePc = "end" => state = Days /\ ~isNil
        /\ err => ~withTx
        /\ txPc = "end" => ~err
        /\ outcome \in {"none", "ok"}
    BY <1>1 DEF IInv, FewInv
  <1>3. /\ failures \in Nat /\ Retries \in Nat /\ failures < Retries
        /\ left \in [Days -> 0 .. Retries] /\ txLeft \in 0 .. Retries
        /\ dayPc \in [Days -> {"none", "call", "check", "sleep", "parse", "end"}]
        /\ err \in BOOLEAN /\ withTx \in BOOLEAN
    BY <1>1, FetchAssumption DEF IInv, TypeOK, Few
  <1>4. CASE GetAccountByID
    <2>1. /\ rangePc' = "collect" /\ dayPc' = [d \in Days |-> "call"]
          /\ UNCHANGED <<left, answered, dayErr, errChan, got, rangeErr, txPc, txLeft,
                         err, withTx, isNil, state, outcome, failures>>
      BY <1>4 DEF GetAccountByID, Few, rangeVars, txVars, resVars
    <2>2. \A e \in Days : SpentOn(e)' <= failures'
      <3>1. \A e \in Days : SpentOn(e)' = Retries - left[e]
        BY <1>3, <2>1 DEF SpentOn, Bad
      <3>2. QED
        BY <1>2, <1>3, <2>1, <3>1, SpentBounds
    <2>3. SpentOnMovements' <= failures'
      BY <1>2, <2>1 DEF SpentOnMovements
    <2>4. \A e \in Days : dayPc'[e] # "end"
      BY <2>1
    <2>5. QED
      BY <1>2, <2>1, <2>2, <2>3, <2>4 DEF FewInv
  <1>5. CASE CollectDays
    <2>1. /\ rangePc' = "return" /\ ~rangeErr'
          /\ UNCHANGED <<dayPc, left, answered, dayErr, errChan, got, txPc, txLeft,
                         err, withTx, isNil, state, outcome, failures>>
      BY <1>2, <1>5 DEF CollectDays, dayVars, txVars, resVars, history
    <2>2. QED
      BY <1>2, <2>1 DEF FewInv, SpentOn, SpentOnMovements
  <1>6. CASE RangeReturns
    <2>1. /\ rangePc' = "end" /\ err' = rangeErr /\ state' = got
          /\ isNil' = \A d \in Days : dayPc[d] = "none"
          /\ UNCHANGED <<dayPc, left, answered, dayErr, errChan, got, rangeErr, txPc,
                         txLeft, withTx, outcome, failures>>
      BY <1>6 DEF RangeReturns, dayVars, txVars, history
    <2>2. \A d \in Days : dayPc[d] = "end"
      BY <1>1, <1>6 DEF RangeReturns, IInv, ControlInv, Few
    <2>3. state' = Days /\ ~isNil' /\ ~err'
      BY <1>2, <2>1, <2>2, FetchAssumption DEF IInv, TypeOK
    <2>4. SpentOnMovements' <= failures'
      BY <1>2, <1>3, <2>1, <2>3 DEF SpentOnMovements, Bad
    <2>5. \A e \in Days : SpentOn(e)' <= failures'
      BY <1>2, <2>1 DEF SpentOn
    <2>6. QED
      BY <1>2, <2>1, <2>3, <2>4, <2>5 DEF FewInv
  <1>7. CASE GetCtaCteConsolidado
    <2>1. PICK ok \in BOOLEAN : withTx' = ok /\ err' = ~ok /\ Failed(~ok)
      BY <1>7, Zenon DEF GetCtaCteConsolidado
    <2>2. /\ txPc' = "check"
          /\ UNCHANGED <<dayPc, left, answered, dayErr, errChan, got, rangePc,
                         rangeErr, txLeft, isNil, state, outcome>>
      BY <1>7 DEF GetCtaCteConsolidado, dayVars, rangeVars
    <2>3. failures <= failures' /\ failures' \in Nat
      BY <1>3, <2>1 DEF Failed
    <2>4. SpentOnMovements' <= failures'
      <3>1. txPc = "call"
        BY <1>7 DEF GetCtaCteConsolidado
      <3>2. Retries - txLeft <= failures
        BY <1>2, <1>3, <3>1 DEF SpentOnMovements, Bad
      <3>3. CASE ok
        <4>1. ~err' /\ withTx'
          BY <2>1, <3>3, Zenon
        <4>2. SpentOnMovements' = Retries - txLeft
          BY <1>3, <2>2, <4>1 DEF SpentOnMovements, Bad
        <4>3. QED
          BY <1>3, <2>3, <3>2, <4>2
      <3>4. CASE ~ok
        <4>1. failures' = failures + 1
          BY <1>1, <2>1, <3>4 DEF Failed
        <4>2. QED
          BY <1>3, <2>2, <3>2, <4>1 DEF SpentOnMovements, Bad
      <3>5. QED
        BY <3>3, <3>4
    <2>5. \A e \in Days : SpentOn(e)' <= failures'
      <3>1. \A e \in Days : SpentOn(e)' = SpentOn(e)
        BY <2>2 DEF SpentOn
      <3>2. QED
        BY <1>2, <1>3, <2>3, <3>1, SpentBounds
    <2>6. err' => ~withTx'
      BY <2>1, Zenon
    <2>7. QED
      BY <1>2, <2>2, <2>4, <2>5, <2>6 DEF FewInv
  <1>8. CASE CheckCtaCte
    <2>1. UNCHANGED <<dayPc, left, answered, dayErr, errChan, got, rangePc,
                      rangeErr, err, withTx, isNil, state, outcome, failures>>
      BY <1>8 DEF CheckCtaCte, dayVars, rangeVars, resVars, history
    <2>2. PICK seen \in {err, ~withTx} :
            /\ txPc = "check"
            /\ txLeft' = IF seen THEN txLeft - 1 ELSE txLeft
            /\ txPc' = IF seen /\ txLeft' > 0 THEN "call" ELSE "end"
      BY <1>8, Zenon DEF CheckCtaCte
    <2>3. SpentOnMovements' <= failures' /\ (txPc' = "end" => ~err')
      BY <1>2, <1>3, <2>1, <2>2 DEF SpentOnMovements, Bad
    <2>4. \A e \in Days : SpentOn(e)' <= failures'
      BY <1>2, <2>1 DEF SpentOn
    <2>5. QED
      BY <1>2, <2>1, <2>3, <2>4 DEF FewInv
  <1>9. CASE Return
    <2>1. /\ UNCHANGED <<dayPc, left, answered, dayErr, errChan, got, rangePc, rangeErr,
                         txPc, txLeft, err, withTx, isNil, state, failures>>
          /\ outcome' = "ok"
      BY <1>2, <1>9 DEF Return, dayVars, rangeVars, txVars, resVars, history
    <2>2. QED
      BY <1>2, <2>1 DEF FewInv, SpentOn, SpentOnMovements
  <1>10. QED
    BY <1>4, <1>5, <1>6, <1>7, <1>8, <1>9 DEF RangeStep, TxStep

-----------------------------------------------------------------------------
\* Every step preserves the inductive invariant.
LEMMA StepIInv == IInv /\ [Next]_vars => IInv'
  <1>1. ASSUME IInv, Next PROVE IInv'
    <2>1. TypeOK'
      BY <1>1, DayTypes, OtherTypes DEF Next
    <2>2. ControlInv' /\ DroppedInv'
      BY <1>1, ControlKept, DroppedKept
    <2>3. FewInv'
      <3>1. CASE Few'
        BY <1>1, <3>1, FewKeptByDay, FewKeptByOthers DEF Next
      <3>2. CASE ~Few'
        BY <3>2 DEF FewInv
      <3>3. QED
        BY <3>1, <3>2
    <2>4. QED
      BY <2>1, <2>2, <2>3 DEF IInv
  <1>2. ASSUME IInv, UNCHANGED vars PROVE IInv'
    <2>1. UNCHANGED <<dayPc, left, answered, dayErr, errChan, got, rangePc, rangeErr,
                      txPc, txLeft, err, isNil, state, withTx, outcome, failures, noAccount, unparsed>>
      BY <1>2 DEF vars, dayVars, rangeVars, txVars, resVars, history
    <2>2. TypeOK'
      BY <1>2, <2>1 DEF IInv, TypeOK
    <2>3. ControlInv' /\ DroppedInv'
      BY <1>2, <2>1 DEF IInv, ControlInv, DroppedInv
    <2>4. FewInv'
      BY <1>2, <2>1 DEF IInv, FewInv, Few, SpentOn, SpentOnMovements
    <2>5. QED
      BY <2>2, <2>3, <2>4 DEF IInv
  <1>3. QED
    BY <1>1, <1>2

\* The positions, the counters and the results always fit together as IInv says.
THEOREM FetchInvariance == Spec => []IInv
  BY InitIInv, StepIInv, PTL DEF Spec

\* Every variable of a fetch keeps its type.
THEOREM FetchTypes == Spec => []TypeOK
  <1>1. IInv => TypeOK
    BY DEF IInv
  <1>2. QED
    BY <1>1, FetchInvariance, PTL

\* With fewer failed calls than a call has retries, GetAccountStateWithTransactions
\* succeeds with every day, whatever the goroutines do to each other's err.
THEOREM FewFailuresAreHarmless == Spec => []FewFailuresKeepHoldings
  <1>1. IInv => FewFailuresKeepHoldings
    BY DEF IInv, ControlInv, FewInv, FewFailuresKeepHoldings
  <1>2. QED
    BY <1>1, FetchInvariance, PTL

\* A success without some day has used up that day's retries, or met an answer
\* that does not parse.
THEOREM DropsAreExhausted == Spec => []OnlyExhaustedDaysDropped
  <1>1. IInv => OnlyExhaustedDaysDropped
    BY DEF IInv, ControlInv, DroppedInv, OnlyExhaustedDaysDropped
  <1>2. QED
    BY <1>1, FetchInvariance, PTL
=============================================================================
