\* One owner that peeks first, as every command of the bot does: a line torn by
\* a crash stops every retry at the peek, before the recovery that repairs it.
CONSTANTS
  o1 = o1
  o2 = o2
  s1 = s1
  b1 = b1
  b2 = b2
  e1 = e1
  e2 = e2
  Owners = {o1}
  Scanners = {}
  Peekers = {o1}
  Bindings = {b1}
  Events = {e1}
  MaxLen = 2
  MaxFailures = 1
  HeadReverts = FALSE
SPECIFICATION FairSpec
PROPERTY RetryEventuallyOpens
CHECK_DEADLOCK FALSE
