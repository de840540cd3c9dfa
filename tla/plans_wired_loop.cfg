\* analyze.rs:604: "Cycle-safe: an edge that would close a loop is skipped".
SPECIFICATION PlanSpec
CONSTANTS
  a = a
  b = b
  c = c
  d = d
  lib = lib
  ui = ui
  gen = gen
  docs = docs
  here = here
  api = api
  sdk = sdk
  out = out
  other = other
  NoProject = NoProject
  Names <- AllNames
  Projects <- AllProjects
  Parts <- AllParts
  Outputs <- AllOutputs
  Files <- AllFiles
INVARIANT
  WiringClosesNoLoop
CHECK_DEADLOCK FALSE
