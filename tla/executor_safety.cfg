\* Every handler of the dispatch loop on plans of three tasks.
SPECIFICATION Spec
CONSTANTS
  a = a
  b = b
  c = c
  Tasks <- ThreeTasks
  Runs <- SafetyRuns
  Errors = {e1, e2}
  MaxRetries = 1
  MailPolls = 1
  NoTask = NoTask
INVARIANTS
  TypeOK
  OneAttemptAtATime
  AttemptsBounded
  ReleasedIsDurable
  
  DrainsTheDag
  VerdictFits
  EndIsQuietAndOnDisk
PROPERTY
  StartsBehindDeps
