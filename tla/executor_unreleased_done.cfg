\* A gated task is recorded as Done and nobody released it.
SPECIFICATION Spec
CONSTANTS
  a = a
  b = b
  c = c
  Tasks <- TwoTasks
  Runs <- GateAndFailure
  Errors = {e1, e2}
  MaxRetries = 1
  MailPolls = 1
  NoTask = NoTask
INVARIANT
  GatedDoneWasReleased
