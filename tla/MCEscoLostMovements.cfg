SPECIFICATION Spec
CONSTANTS
  d1 = d1  d2 = d2
  Days = {d1, d2}
  Retries = 3
  CountUpTo = 3
INVARIANT LostTransactionsAreAnError
CHECK_DEADLOCK FALSE
