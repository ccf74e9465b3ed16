\* An owner that opens directly, one that peeks first, and a scanner of history.
CONSTANTS
  o1 = o1
  o2 = o2
  s1 = s1
  b1 = b1
  b2 = b2
  e1 = e1
  e2 = e2
  Owners = {o1, o2}
  Scanners = {s1}
  Peekers = {o2}
  Bindings = {b1, b2}
  Events = {e1, e2}
  MaxLen = 3
  MaxFailures = 3
  HeadReverts = FALSE
SPECIFICATION FairSpec
INVARIANTS
  TypeOK
  ObservedSurvives
  HeadLeadsByOne
  RollbackOnlyWhenPassed
  EventsCommittedOnce
PROPERTIES
  ImplementsAppendLog
  DirectRetryOpens
CHECK_DEADLOCK FALSE
