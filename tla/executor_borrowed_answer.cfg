\* A gated task is released on an answer that was meant for another run.
SPECIFICATION Spec
CONSTANTS
  a = a
  b = b
  c = c
  Tasks <- TwoTasks
  Runs <- GateOfTwoRuns
  Errors = {e1, e2}
  MaxRetries = 1
  MailPolls = 1
  NoTask = NoTask
INVARIANT
  ReleasedByItsOwnAnswer
