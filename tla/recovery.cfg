\* Up to three runs, two cancel commands and a draft over a plan of two tasks.
SPECIFICATION Spec
CONSTANTS
  a = a
  b = b
  c = c
  c1 = c1
  c2 = c2
  Tasks <- TwoTasks
  Deps <- Pair
  MaxRuns = 3
  Limits <- SafetyLimits
  Cancellers = {c1, c2}
INVARIANTS
  TypeOK
  StandsOnOutputs
  RestIsRun
  ReleasedIsNotRedone
  OwnerAgreesWithDisk
  NamedCancelHitsItsTarget
  OneDoctorFinding
PROPERTIES
  CancelEndsTheRun
  EveryRunKeepsThePromise
CHECK_DEADLOCK FALSE
