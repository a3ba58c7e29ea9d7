SPECIFICATION FairSpec
CONSTANTS
  NoJob = NoJob
  Nobody = Nobody
  Jobs = {j1, j2}
  Pollers = {p1}
  Readers = {}
  MaxSheets = 2
  DiskFails = TRUE
  Crashes = TRUE
PROPERTIES
  TerminalIsFinal
  ImplementsLifecycle
  ScanEnds
  SessionReleased
