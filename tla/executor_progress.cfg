\* Runs end, cancel requests get through, and the loop implements TaskGraphRun.
SPECIFICATION FairSpec
CONSTANTS
  a = a
  b = b
  c = c
  Tasks <- ThreeTasks
  Runs <- ProgressRuns
  Errors = {e1, e2}
  MaxRetries = 1
  MailPolls = 1
  NoTask = NoTask
PROPERTIES
  EndsUnlessUnanswered
  CancelGetsThrough
  KeepsThePromise
