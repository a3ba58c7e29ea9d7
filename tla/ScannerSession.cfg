SPECIFICATION FairSpec
CONSTANTS
  Sheets = 2
  Stripes = 3
  Duplex = TRUE
  Retries = 4
  Troubles <- AllTroubles
\* A session that is over takes no more steps.
CHECK_DEADLOCK FALSE
INVARIANTS
  TypeOK
  InStep
  SheetsComplete
PROPERTIES
  ImplementsSheetFeed
  SessionEnds
