\* A task behind a skipped one is never started.
SPECIFICATION Spec
CONSTANTS
  a = a
  b = b
  c = c
  Tasks <- ThreeTasks
  Runs <- MiddleSkipped
  Errors = {e1, e2}
  MaxRetries = 1
  MailPolls = 1
  NoTask = NoTask
INVARIANT
  DoneMeansDrained
