SPECIFICATION Spec
CONSTANTS
  Sheets = 1
  Stripes = 4
  Duplex = TRUE
  Retries = 4
  Troubles <- OneFailedRead
\* A session that is over takes no more steps.
CHECK_DEADLOCK FALSE
INVARIANT StripesAlternate
