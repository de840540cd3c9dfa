\* Two recording threads; one drain that dies or fails twice, or two drains; two doctors.
SPECIFICATION Spec
CONSTANTS
  scheduler = scheduler
  attempt = attempt
  d1 = d1
  d2 = d2
  doctor1 = doctor1
  doctor2 = doctor2
  Doctors <- TwoDoctors
  Threads <- TwoThreads
  Quota <- SmallQuota
  Heard <- AllHeard
  Drainers <- TwoDrains
  Teams <- OneOrTwo
INVARIANTS
  TypeOK
  LedgerNumbered
  NothingSkipped
  DuplicatesArePaidFor
PROPERTIES
  DeliversInOrder
  EventuallySent
CHECK_DEADLOCK FALSE
