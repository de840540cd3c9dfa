\* A dependency listed twice dispatches the consumer twice.
SPECIFICATION Spec
CONSTANTS
  a = a
  b = b
  c = c
  Tasks <- TwoTasks
  Runs <- Repeated
  Errors = {e1, e2}
  MaxRetries = 1
  MailPolls = 1
  NoTask = NoTask
INVARIANT
  AttemptsWithinBudget
