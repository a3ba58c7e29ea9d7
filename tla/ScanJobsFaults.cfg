SPECIFICATION Spec
CONSTANTS
  NoJob = NoJob
  Nobody = Nobody
  Jobs = {j1, j2}
  Pollers = {p1}
  Readers = {r1}
  MaxSheets = 3
  DiskFails = TRUE
  Crashes = TRUE
SYMMETRY JobSymmetry
INVARIANTS
  BusyFlagExact
  DeviceExclusive
  SavedPagesHaveFiles
  CompletedIsExact
  CountTrailsByOneFront
  IdleMeansPersisted
  CrashLosesOneSheet
  LiveProgressFresh
PROPERTY NotFoundIsTransient
