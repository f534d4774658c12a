\* One report and one lookup that share the cache, over two periods of a list's
\* expiry; answers with values on some days, on days of no value, and empty ones.
SPECIFICATION FairSpec
CONSTANTS
  Reports = {r1}
  Lookups = {l1}
  Windows <- MCWindows
  Quotes <- MCQuotes
  Lead = 1
  Expiry = 0
  MaxTime = 1
  None = None
INVARIANTS AnswerIsWhole StuckNeedsTwoFailures OutageIsSurvived FilledForward DailyVariationIsGrowth
PROPERTIES ServingListStays ReportAnswered
CHECK_DEADLOCK FALSE
