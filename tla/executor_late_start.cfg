\* A task parked on mail starts after the run failed.
SPECIFICATION Spec
CONSTANTS
  a = a
  b = b
  c = c
  Tasks <- TwoTasks
  Runs <- MailAndFailure
  Errors = {e1, e2}
  MaxRetries = 1
  MailPolls = 1
  NoTask = NoTask
PROPERTY
  FailFast
