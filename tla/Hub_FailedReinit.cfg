CONSTANTS
  t1 = t1
  t2 = t2
  NoMsg = NoMsg
  Threads <- MCThreads
  NoMessage <- NoMsg
  OpsPerThread = 2
  Messages = {"m"}
  MaxEventsPerInterval = 2
  RepetitionInterval = 1
  SampleRate = 50
  MaxTime = 2
  TagKeys = {"server_name"}
  ExtraKeys = {"extra"}
  Values = {"v1"}
  MaxBreadcrumbs = 2
  MaxCrumbs = 4
  BreadcrumbOptions <- MCBreadcrumbOptions
  SampleRateOptions = {0, 50}
SPECIFICATION ReinitSpec
INVARIANT BreadcrumbBound
SYMMETRY ThreadSymmetry
