SPECIFICATION FairSpec
CONSTANTS
  d1 = d1  d2 = d2
  Days = {d1, d2}
  Retries = 3
  CountUpTo = 3
INVARIANTS TypeOK FewFailuresKeepHoldings OnlyExhaustedDaysDropped
PROPERTY FetchReturns
CHECK_DEADLOCK FALSE
