\* A resume of a resumed run; expected to be violated.
SPECIFICATION Spec
CONSTANTS
  a = a
  b = b
  c = c
  c1 = c1
  c2 = c2
  Tasks <- TwoTasks
  Deps <- Pair
  MaxRuns = 3
  Cancellers = {c1}
  Limits <- ThreeInARow
INVARIANT ResumeRedoesNothing
CHECK_DEADLOCK FALSE
